---- MODULE Spec2Model ----
(***************************************************************************)
(* Model of the speacher backend.                                          *)
(*                                                                         *)
(* Part 1: TranscriptionJobManager (src/src/backend/transcription_jobs.py),*)
(* the in-memory job store.  self.jobs is a Python dict: a mapping         *)
(* (jobs) plus the insertion order of its keys (jobOrder).                 *)
(*                                                                         *)
(* Modelling conventions                                                   *)
(*  - Optional[x] is a sequence of length at most one: None is <<>> and a  *)
(*    value v is <<v>>.                                                    *)
(*  - uuid.uuid4() is idealised as an oracle of fresh identifiers: it      *)
(*    never returns a value it returned before (returned is the history of *)
(*    the identifiers create_job has returned).                            *)
(*  - last is the last call made on the manager (its arguments, its return *)
(*    value, the error it raised) and pre is the store as it was before    *)
(*    that call.                                                           *)
(*  - now is the last value of time.time_ns() / 1e9 that was read; a later *)
(*    reading is not smaller, and may be equal.                            *)
(*  - cost_estimate and duration are floats in the program; the model uses *)
(*    a few integer values, no arithmetic is done on them by the store.    *)
(*                                                                         *)
(* Part 2: the provider pipeline.  wait is the activation of               *)
(* AWSService.wait_for_job_completion (cloud_wrappers.py), pipe the        *)
(* activation of process_aws_transcription / process_azure_transcription / *)
(* process_gcp_transcription (main.py), norm the call of                   *)
(* process_transcription_data (main.py), clock the value of time.time() in *)
(* seconds.  Each part has its own specification; the variables of the     *)
(* other parts stay at their idle values.                                  *)
(*                                                                         *)
(* Part 3: cost is the call of calculate_cost (main.py); tasks are two     *)
(* tasks of the event loop that call the manager for the same job; reader  *)
(* is a caller that keeps what get_job_status or get_user_jobs returned.   *)
(***************************************************************************)
EXTENDS Integers, Sequences, FiniteSets, TLC

VARIABLES jobs, jobOrder, returned, now, last, pre, nops, clock, wait, pipe, norm,
          cost, tasks, reader, req

storeVars == <<jobs, jobOrder, returned, now, last, pre, nops>>

lateVars == <<cost, tasks, reader, req>>

vars == <<jobs, jobOrder, returned, now, last, pre, nops, clock, wait, pipe, norm,
          cost, tasks, reader, req>>

----------------------------------------------------------------------------
(* Bounds of the model *)

MaxJobs == 2

MaxTime == 1

MaxOps == 3

----------------------------------------------------------------------------
(* Values *)

None == <<>>

Some(v) == <<v>>

JobIds == 1..MaxJobs

CREATED == "created"

UPLOADING == "uploading"

QUEUED == "queued"

PROCESSING == "processing"

DOWNLOADING == "downloading"

COMPLETED == "completed"

FAILED == "failed"

JobStatus == {CREATED, UPLOADING, QUEUED, PROCESSING, DOWNLOADING, COMPLETED, FAILED}

Users == {"u1", "u2"}

(* Arguments of create_job: the default call (duration and                  *)
(* initial_cost_estimate omitted) and calls that supply them.  Durations   *)
(* are seconds, costs are in units of 0.001 USD.                           *)
CreateArgs ==
    { [user_id |-> "u1", filename |-> "a.mp3", provider |-> "aws",
       duration |-> None, initial_cost_estimate |-> 0],
      [user_id |-> "u2", filename |-> "b.wav", provider |-> "azure",
       duration |-> Some(120), initial_cost_estimate |-> 48],
      [user_id |-> "u1", filename |-> "b.wav", provider |-> "gcp",
       duration |-> Some(60), initial_cost_estimate |-> 0] }

(* Arguments of update_progress: progress below, inside and above [0,100], *)
(* cost_estimate and duration omitted (0, None) or supplied.               *)
UpdateArgs ==
    { [progress |-> 150, status |-> UPLOADING, current_step |-> "Uploading",
       cost_estimate |-> 0, duration |-> None],
      [progress |-> -10, status |-> FAILED, current_step |-> "Error",
       cost_estimate |-> 0, duration |-> None],
      [progress |-> 50, status |-> PROCESSING, current_step |-> "Processing",
       cost_estimate |-> 24, duration |-> Some(60)],
      [progress |-> 0, status |-> QUEUED, current_step |-> "Queued",
       cost_estimate |-> 48, duration |-> None],
      [progress |-> 100, status |-> COMPLETED, current_step |-> "Done",
       cost_estimate |-> 48, duration |-> Some(120)] }

----------------------------------------------------------------------------
(* Helpers *)

Max(a, b) == IF a >= b THEN a ELSE b

Min(a, b) == IF a <= b THEN a ELSE b

(* variant: the upper bound only, min(100, progress) *)
ClampNoFloor(progress) == Min(100, progress)

(* progress = max(0, min(100, progress)) *)
Clamp(progress) == Max(0, Min(100, progress))

(* dict.update(update_data): keys of update_data overwrite, others stay *)
DictUpdate(d, u) ==
    [k \in DOMAIN d \cup DOMAIN u |-> IF k \in DOMAIN u THEN u[k] ELSE d[k]]

(* the dict self.jobs with key j bound to record r (insertion order kept   *)
(* in jobOrder)                                                            *)
DictSet(d, j, r) == [k \in DOMAIN d \cup {j} |-> IF k = j THEN r ELSE d[k]]

(* variant: self.jobs.clear() *)
DictClear(d, j) == <<>>

(* dict.pop(j, None) *)
DictDel(d, j) == [k \in DOMAIN d \ {j} |-> d[k]]

SeqDel(s, j) == SelectSeq(s, LAMBDA k : k # j)

Range(s) == { s[i] : i \in DOMAIN s }

(* variant: an identifier derived from the live store, free again after a delete *)
FreshIdsReuse == JobIds \ DOMAIN jobs

(* uuid.uuid4(): the identifiers it can still return *)
FreshIds == JobIds \ Range(returned)

(* time.time_ns() / 1e9: the readings the clock can give next *)
ClockReadings == { t \in now..(now + 1) : t <= MaxTime }

(* no call of wait_for_job_completion, of process_*_transcription, of       *)
(* process_transcription_data is active                                    *)
WIdle == [pc |-> "idle"]

PIdle == [pc |-> "idle"]

NIdle == [pc |-> "idle"]

(* no call of calculate_cost, no task, no reader *)
CIdle == [pc |-> "idle"]

TIdle == [pc |-> "idle"]

RIdle == [pc |-> "idle"]

QIdle == [pc |-> "idle"]

LateIdle ==
    /\ cost = CIdle
    /\ tasks = TIdle
    /\ reader = RIdle
    /\ req = QIdle

----------------------------------------------------------------------------
(* TranscriptionJobManager *)

(* __init__: self.jobs = {} *)
Init ==
    /\ jobs = <<>>
    /\ jobOrder = <<>>
    /\ returned = <<>>
    /\ now = 0
    /\ nops = 0
    /\ pre = [jobs |-> <<>>, jobOrder |-> <<>>]
    /\ last = [op |-> "init", job_id |-> 0, args |-> <<>>, err |-> "", ret |-> None]
    /\ clock = 0
    /\ wait = WIdle
    /\ pipe = PIdle
    /\ norm = NIdle
    /\ LateIdle

(* variant: cost_estimate fixed at 0.0, initial_cost_estimate ignored *)
NewJobZeroCost(job_id, a, t) ==
    [job_id |-> job_id,
     user_id |-> a.user_id,
     filename |-> a.filename,
     provider |-> a.provider,
     status |-> CREATED,
     progress |-> 0,
     current_step |-> "Job created",
     cost_estimate |-> 0,
     duration |-> a.duration,
     created_at |-> t,
     updated_at |-> t]

(* variant: the record without its duration key *)
NewJobNoDuration(job_id, a, t) ==
    [job_id |-> job_id,
     user_id |-> a.user_id,
     filename |-> a.filename,
     provider |-> a.provider,
     status |-> CREATED,
     progress |-> 0,
     current_step |-> "Job created",
     cost_estimate |-> a.initial_cost_estimate,
     created_at |-> t,
     updated_at |-> t]

(* the record create_job stores under job_id *)
NewJob(job_id, a, t) ==
    [job_id |-> job_id,
     user_id |-> a.user_id,
     filename |-> a.filename,
     provider |-> a.provider,
     status |-> CREATED,
     progress |-> 0,
     current_step |-> "Job created",
     cost_estimate |-> a.initial_cost_estimate,
     duration |-> a.duration,
     created_at |-> t,
     updated_at |-> t]

create_job(a, job_id, t) ==
    /\ nops < MaxOps
    /\ jobs' = DictSet(jobs, job_id, NewJob(job_id, a, t))
    /\ jobOrder' = IF job_id \in DOMAIN jobs THEN jobOrder ELSE Append(jobOrder, job_id)
    /\ returned' = Append(returned, job_id)
    /\ now' = t
    /\ nops' = nops + 1
    /\ pre' = [jobs |-> jobs, jobOrder |-> jobOrder]
    /\ last' = [op |-> "create_job", job_id |-> job_id, args |-> a, err |-> "", ret |-> job_id]

(* variant: duration written unconditionally *)
UpdateDataAlwaysDuration(a, t) ==
    [progress |-> Clamp(a.progress),
     status |-> a.status,
     current_step |-> a.current_step,
     cost_estimate |-> a.cost_estimate,
     duration |-> a.duration,
     updated_at |-> t]

(* variant: created_at refreshed together with updated_at *)
UpdateDataTouchCreated(a, t) ==
    LET base == [progress |-> Clamp(a.progress),
                 status |-> a.status,
                 current_step |-> a.current_step,
                 cost_estimate |-> a.cost_estimate,
                 created_at |-> t,
                 updated_at |-> t]
    IN  IF a.duration # None THEN DictUpdate(base, [duration |-> a.duration]) ELSE base

(* variant: cost_estimate written only when it is not the default 0.0 *)
UpdateDataStickyCost(a, t) ==
    LET base == [progress |-> Clamp(a.progress),
                 status |-> a.status,
                 current_step |-> a.current_step,
                 updated_at |-> t]
        update_data == IF a.cost_estimate # 0
                       THEN DictUpdate(base, [cost_estimate |-> a.cost_estimate])
                       ELSE base
    IN  IF a.duration # None
        THEN DictUpdate(update_data, [duration |-> a.duration])
        ELSE update_data

(* update_data of update_progress; duration only if it is not None *)
UpdateData(a, t) ==
    LET base == [progress |-> Clamp(a.progress),
                 status |-> a.status,
                 current_step |-> a.current_step,
                 cost_estimate |-> a.cost_estimate,
                 updated_at |-> t]
    IN  IF a.duration # None THEN DictUpdate(base, [duration |-> a.duration]) ELSE base

(* variant: a record that is COMPLETED or FAILED is closed to updates *)
JobNotFoundOrClosed(job_id) ==
    \/ job_id \notin DOMAIN jobs
    \/ jobs[job_id].status \in {COMPLETED, FAILED}

(* if job_id not in self.jobs *)
JobNotFound(job_id) == job_id \notin DOMAIN jobs

(* variant: no membership test, self.jobs.setdefault(job_id, {}).update(...) *)
update_progress_upsert(job_id, a, t) ==
    /\ nops < MaxOps
    /\ nops' = nops + 1
    /\ pre' = [jobs |-> jobs, jobOrder |-> jobOrder]
    /\ jobs' = DictSet(jobs, job_id,
                       DictUpdate(IF JobNotFound(job_id) THEN <<>> ELSE jobs[job_id],
                                  UpdateData(a, t)))
    /\ jobOrder' = IF JobNotFound(job_id) THEN Append(jobOrder, job_id) ELSE jobOrder
    /\ now' = t
    /\ last' = [op |-> "update_progress", job_id |-> job_id, args |-> a,
                err |-> "", ret |-> None]
    /\ UNCHANGED returned

update_progress(job_id, a, t) ==
    /\ nops < MaxOps
    /\ nops' = nops + 1
    /\ pre' = [jobs |-> jobs, jobOrder |-> jobOrder]
    /\ IF JobNotFound(job_id)
       THEN /\ last' = [op |-> "update_progress", job_id |-> job_id, args |-> a,
                        err |-> "KeyError", ret |-> None]
            /\ UNCHANGED <<jobs, jobOrder, returned, now>>
       ELSE /\ jobs' = [jobs EXCEPT ![job_id] = DictUpdate(jobs[job_id], UpdateData(a, t))]
            /\ now' = t
            /\ last' = [op |-> "update_progress", job_id |-> job_id, args |-> a,
                        err |-> "", ret |-> None]
            /\ UNCHANGED <<jobOrder, returned>>

(* self.jobs.get(job_id) *)
JobsGet(job_id) == IF job_id \in DOMAIN jobs THEN Some(jobs[job_id]) ELSE None

get_job_status(job_id) ==
    /\ last' = [op |-> "get_job_status", job_id |-> job_id, args |-> <<>>,
                err |-> "", ret |-> JobsGet(job_id)]
    /\ pre' = [jobs |-> jobs, jobOrder |-> jobOrder]
    /\ UNCHANGED <<jobs, jobOrder, returned, now, nops>>

(* variant: the filter on user_id dropped *)
UserJobsAll(user_id) == [i \in 1..Len(jobOrder) |-> jobs[jobOrder[i]]]

(* [job for job in self.jobs.values() if job["user_id"] == user_id] *)
UserJobs(user_id) ==
    LET ks == SelectSeq(jobOrder, LAMBDA k : jobs[k].user_id = user_id)
    IN  [i \in 1..Len(ks) |-> jobs[ks[i]]]

get_user_jobs(user_id) ==
    /\ last' = [op |-> "get_user_jobs", job_id |-> 0, args |-> [user_id |-> user_id],
                err |-> "", ret |-> UserJobs(user_id)]
    /\ pre' = [jobs |-> jobs, jobOrder |-> jobOrder]
    /\ UNCHANGED <<jobs, jobOrder, returned, now, nops>>

(* variant: del self.jobs[job_id], which raises on a missing key *)
delete_job_del(job_id) ==
    /\ nops < MaxOps
    /\ nops' = nops + 1
    /\ pre' = [jobs |-> jobs, jobOrder |-> jobOrder]
    /\ jobs' = DictDel(jobs, job_id)
    /\ jobOrder' = SeqDel(jobOrder, job_id)
    /\ last' = [op |-> "delete_job", job_id |-> job_id, args |-> <<>>,
                err |-> IF JobNotFound(job_id) THEN "KeyError" ELSE "", ret |-> None]
    /\ UNCHANGED <<returned, now>>

(* self.jobs.pop(job_id, None) *)
delete_job(job_id) ==
    /\ nops < MaxOps
    /\ nops' = nops + 1
    /\ pre' = [jobs |-> jobs, jobOrder |-> jobOrder]
    /\ jobs' = DictDel(jobs, job_id)
    /\ jobOrder' = SeqDel(jobOrder, job_id)
    /\ last' = [op |-> "delete_job", job_id |-> job_id, args |-> <<>>,
                err |-> "", ret |-> None]
    /\ UNCHANGED <<returned, now>>

Next ==
    \/ \E a \in CreateArgs, job_id \in FreshIds, t \in ClockReadings :
           create_job(a, job_id, t) /\ UNCHANGED <<clock, wait, pipe, norm, lateVars>>
    \/ \E job_id \in JobIds, a \in UpdateArgs, t \in ClockReadings :
           update_progress(job_id, a, t) /\ UNCHANGED <<clock, wait, pipe, norm, lateVars>>
    \/ \E job_id \in JobIds : get_job_status(job_id) /\ UNCHANGED <<clock, wait, pipe, norm, lateVars>>
    \/ \E user_id \in Users : get_user_jobs(user_id) /\ UNCHANGED <<clock, wait, pipe, norm, lateVars>>
    \/ \E job_id \in JobIds : delete_job(job_id) /\ UNCHANGED <<clock, wait, pipe, norm, lateVars>>

Spec == Init /\ [][Next]_vars

----------------------------------------------------------------------------
(* AWSService.wait_for_job_completion (cloud_wrappers.py 97-124) *)

(* time.sleep(10) *)
PollInterval == 10

(* timeout: int = 3600 *)
DefaultTimeout == 3600

(* seconds a call to the provider, or a sleep beyond its interval, may take *)
MaxLatency == 1

Latencies == 0..MaxLatency

(* timeout arguments of the direct calls, and the clock when they are made *)
Timeouts == {-5, 0, 10, 25}

StartClocks == {0, 7}

(* the clock of the model stops three intervals after the deadline of the *)
(* active call; no run of the loop gets there                             *)
ClockCap ==
    wait.start_time + (IF wait.timeout > 0 THEN wait.timeout ELSE 0) + 3 * PollInterval

Advance(t, d) == IF t + d <= ClockCap THEN t + d ELSE ClockCap

(* dict.get(k, default) *)
DictGet(d, k, default) == IF k \in DOMAIN d THEN d[k] ELSE default

NoValue == "<None>"

TranscriptUri == "https://s3.amazonaws.com/bucket/transcript.json"

(* responses of transcribe_client.get_transcription_job *)
Responses ==
    { [TranscriptionJob |->
          [TranscriptionJobStatus |-> "COMPLETED",
           Transcript |-> [TranscriptFileUri |-> TranscriptUri]]],
      [TranscriptionJob |-> [TranscriptionJobStatus |-> "COMPLETED"]],
      [TranscriptionJob |-> [TranscriptionJobStatus |-> "IN_PROGRESS"]],
      [TranscriptionJob |-> [TranscriptionJobStatus |-> "QUEUED"]],
      [TranscriptionJob |->
          [TranscriptionJobStatus |-> "FAILED",
           FailureReason |-> "Unsupported sample rate"]],
      [TranscriptionJob |-> [TranscriptionJobStatus |-> "FAILED"]],
      [ResponseMetadata |-> "200"] }

(* what one call of get_transcription_job does: it returns a response, it  *)
(* raises botocore's ClientError, or it raises an exception of another     *)
(* class                                                                   *)
PollOutcomes ==
    { [kind |-> "response", response |-> r] : r \in Responses }
        \cup { [kind |-> "ClientError"], [kind |-> "OtherError"] }

NoPoll == [kind |-> "none"]

(* job = response.get("TranscriptionJob", {}) *)
JobOf(response) == DictGet(response, "TranscriptionJob", <<>>)

(* status = job.get("TranscriptionJobStatus") *)
StatusOf(response) == DictGet(JobOf(response), "TranscriptionJobStatus", NoValue)

(* variant: the status name of the design document *)
IsCompletedSucceeded(status) == status = "SUCCEEDED"

(* if status == "COMPLETED" *)
IsCompleted(status) == status = "COMPLETED"

(* variant: no FAILED branch *)
IsFailedNever(status) == FALSE

(* elif status == "FAILED" *)
IsFailed(status) == status = "FAILED"

(* failure_reason = job.get("FailureReason", "Unknown") *)
FailureReason(response) == DictGet(JobOf(response), "FailureReason", "Unknown")

(* f"Transcription job failed: {failure_reason}" *)
FailedMessage(response) == "Transcription job failed: " \o FailureReason(response)

TimedOutMessage == "Transcription job timed out"

(* start_time = time.time() *)
WaitStart(timeout, t) ==
    [pc |-> "check", timeout |-> timeout, start_time |-> t, lastPoll |-> NoPoll,
     slept |-> 0, errs |-> 0, sawRunning |-> FALSE, sawError |-> FALSE,
     ret |-> None, err |-> "", cancelled |-> FALSE, afterCancel |-> 0]

wait_for_job_completion(timeout) ==
    /\ wait.pc = "idle"
    /\ pipe.pc = "idle"
    /\ wait' = WaitStart(timeout, clock)
    /\ UNCHANGED clock

(* variant: while True *)
LoopCondTrue == TRUE

(* variant: while time.time() - start_time <= timeout *)
LoopCondInclusive == clock - wait.start_time <= wait.timeout

(* while time.time() - start_time < timeout *)
LoopCond == clock - wait.start_time < wait.timeout

wait_check ==
    /\ wait.pc = "check"
    /\ wait' = IF LoopCond
               THEN [wait EXCEPT !.pc = "poll"]
               ELSE [wait EXCEPT !.pc = "raised", !.err = TimedOutMessage]
    /\ UNCHANGED clock

(* variant: the handler of get_transcription_job_status, which re-raises *)
OnClientErrorRaise(o) ==
    [wait EXCEPT !.pc = "raised", !.lastPoll = o, !.slept = 0,
                 !.err = "Failed to get job status"]

(* except ClientError: log, then time.sleep(10) *)
OnClientError(o) ==
    [wait EXCEPT !.pc = "sleep_err", !.lastPoll = o, !.slept = 0,
                 !.errs = IF wait.errs < 2 THEN wait.errs + 1 ELSE 2,
                 !.sawError = TRUE]

(* the body of the try block for a response *)
OnResponse(o) ==
    LET status == StatusOf(o.response)
    IN  IF IsCompleted(status)
        THEN [wait EXCEPT !.pc = "returned", !.lastPoll = o, !.slept = 0,
                          !.ret = Some(o.response["TranscriptionJob"])]
        ELSE IF IsFailed(status)
        THEN [wait EXCEPT !.pc = "raised", !.lastPoll = o, !.slept = 0,
                          !.err = FailedMessage(o.response)]
        ELSE [wait EXCEPT !.pc = "sleep_ok", !.lastPoll = o, !.slept = 0,
                          !.errs = 0, !.sawRunning = TRUE]

(* the polls made since a cancellation was requested: none, one, more *)
Polled(w) ==
    [w EXCEPT !.afterCancel = IF wait.cancelled THEN Min(2, @ + 1) ELSE @]

wait_poll(o, d) ==
    /\ wait.pc = "poll"
    /\ clock' = Advance(clock, d)
    /\ wait' = Polled(IF o.kind = "ClientError" THEN OnClientError(o)
                      ELSE IF o.kind = "OtherError"
                      THEN [wait EXCEPT !.pc = "raised", !.lastPoll = o, !.slept = 0,
                                        !.err = "OtherError"]
                      ELSE OnResponse(o))

(* time.sleep(10), lines 118 and 121 *)
wait_sleep(d) ==
    /\ wait.pc \in {"sleep_ok", "sleep_err"}
    /\ clock' = Advance(clock, PollInterval + d)
    /\ wait' = [wait EXCEPT !.pc = "check", !.slept = wait.slept + 1]

StoreIdle ==
    /\ jobs = <<>>
    /\ jobOrder = <<>>
    /\ returned = <<>>
    /\ now = 0
    /\ nops = 0
    /\ pre = [jobs |-> <<>>, jobOrder |-> <<>>]
    /\ last = [op |-> "init", job_id |-> 0, args |-> <<>>, err |-> "", ret |-> None]

InitWait ==
    /\ StoreIdle
    /\ clock \in StartClocks
    /\ wait = WIdle
    /\ pipe = PIdle
    /\ norm = NIdle
    /\ LateIdle

WaitRest == UNCHANGED <<storeVars, pipe, norm, lateVars>>

NextWait ==
    \/ \E timeout \in Timeouts : (wait_for_job_completion(timeout) /\ WaitRest)
    \/ (wait_check /\ WaitRest)
    \/ \E o \in PollOutcomes, d \in Latencies : (wait_poll(o, d) /\ WaitRest)
    \/ \E d \in Latencies : (wait_sleep(d) /\ WaitRest)

SpecWait == InitWait /\ [][NextWait]_vars /\ WF_vars(NextWait)

(* A cancellation is requested for the task that runs the request while    *)
(* wait_for_job_completion is active.  The loop takes no cancellation      *)
(* argument, tests no flag and has no await (it sleeps with time.sleep),   *)
(* so the request changes nothing the loop reads.                          *)
wait_cancel ==
    /\ wait.pc \in {"check", "poll", "sleep_ok", "sleep_err"}
    /\ ~wait.cancelled
    /\ wait' = [wait EXCEPT !.cancelled = TRUE]
    /\ UNCHANGED clock

NextCancel ==
    \/ \E timeout \in Timeouts : (wait_for_job_completion(timeout) /\ WaitRest)
    \/ (wait_check /\ WaitRest)
    \/ \E o \in PollOutcomes, d \in Latencies : (wait_poll(o, d) /\ WaitRest)
    \/ \E d \in Latencies : (wait_sleep(d) /\ WaitRest)
    \/ (wait_cancel /\ WaitRest)

SpecCancel == InitWait /\ [][NextCancel]_vars

----------------------------------------------------------------------------
(* process_transcription_data (main.py 626-743)                            *)
(*                                                                         *)
(* A parsed JSON value carries its Python type in t.  A float is an exact  *)
(* fraction in lowest terms.  Raised stands for an expression that raised. *)

JNull == [t |-> "null"]

JNum(i) == [t |-> "num", n |-> i]

JStr(str) == [t |-> "str", s |-> str]

JList(elems) == [t |-> "list", l |-> elems]

JDict(map) == [t |-> "dict", d |-> map]

Raised == [t |-> "raise"]

RECURSIVE GCD(_, _)
GCD(a, b) == IF b = 0 THEN a ELSE GCD(b, a % b)

Abs(i) == IF i < 0 THEN -i ELSE i

(* the float num / den, den > 0 *)
Rat(num, den) ==
    LET g == GCD(Abs(num), den)
    IN  [t |-> "float", num |-> num \div g, den |-> den \div g]

RatLe(a, b) == a.num * b.den <= b.num * a.den

(* bool(x) *)
Truthy(x) ==
    CASE x.t = "null"   -> FALSE
      [] x.t = "num"    -> x.n # 0
      [] x.t = "str"    -> x.s # ""
      [] x.t = "list"   -> x.l # <<>>
      [] x.t = "dict"   -> DOMAIN x.d # {}

(* 'k in x' raises TypeError unless x is a container or a string *)
Iterable(x) == x.t \in {"str", "list", "dict"}

(* 'k in x' for a string k: a key of a dict, an element of a list, a       *)
(* substring of a string (no string of the model has a key as a proper     *)
(* substring)                                                              *)
Has(k, x) ==
    CASE x.t = "dict" -> k \in DOMAIN x.d
      [] x.t = "list" -> \E i \in DOMAIN x.l : x.l[i] = JStr(k)
      [] x.t = "str"  -> x.s = k
      [] OTHER        -> FALSE

(* x.get(k, default): AttributeError unless x is a dict *)
Get(x, k, default) ==
    IF x.t = "dict"
    THEN IF k \in DOMAIN x.d THEN x.d[k] ELSE default
    ELSE Raised

(* x[k] for a string k: KeyError or TypeError unless x is a dict with k *)
Item(x, k) ==
    IF x.t = "dict" /\ k \in DOMAIN x.d THEN x.d[k] ELSE Raised

(* x[0].get(k, default): x[0] exists in a non-empty list (a character of a *)
(* string has no get), and has to be a dict                                *)
FirstGet(x, k, default) ==
    IF x.t = "list" /\ x.l # <<>> THEN Get(x.l[1], k, default) ELSE Raised

(* x[-1]; strings are not indexed in the model *)
LastOf(x) ==
    IF x.t = "list" /\ x.l # <<>> THEN x.l[Len(x.l)] ELSE Raised

(* list(x), the values 'for e in x' goes through: the elements of a list;  *)
(* the keys of a dict and the characters of a string are strings           *)
Elements(x) ==
    CASE x.t = "list" -> x
      [] x.t = "dict" -> JList([i \in 1..Cardinality(DOMAIN x.d) |-> JStr("key")])
      [] x.t = "str"  -> IF x.s = "" THEN JList(<<>>) ELSE JList(<<JStr("char")>>)
      [] OTHER        -> Raised

(* the decimal numerals the payloads of the model use for start_time and   *)
(* end_time (AWS writes them as strings), with their value in 1/1000       *)
NumeralMillis ==
    ("0.0" :> 0) @@ ("0.5" :> 500) @@ ("0.6" :> 600) @@ ("1.0" :> 1000) @@
    ("1.9" :> 1900) @@ ("2.0" :> 2000) @@ ("2.1" :> 2100) @@ ("3.0" :> 3000)

(* float(x): of a number, of a numeral; ValueError or TypeError otherwise  *)
Float(x) ==
    CASE x.t = "num" -> Rat(x.n, 1)
      [] x.t = "str" ->
            IF x.s \in DOMAIN NumeralMillis
            THEN Rat(NumeralMillis[x.s], 1000)
            ELSE Raised
      [] OTHER -> Raised

(* x / 10000000 *)
TicksPerSecond == 10000000

TicksToSeconds(x) ==
    IF x.t = "num" THEN Rat(x.n, TicksPerSecond) ELSE Raised

(* " ".join(words): TypeError unless every word is a string *)
RECURSIVE JoinStrings(_)
JoinStrings(words) ==
    IF words = <<>> THEN ""
    ELSE IF Len(words) = 1 THEN words[1].s
    ELSE words[1].s \o " " \o JoinStrings(Tail(words))

AllStrings(words) == \A i \in DOMAIN words : words[i].t = "str"

Join(words) ==
    IF words = Raised THEN Raised
    ELSE IF AllStrings(words.l) THEN JStr(JoinStrings(words.l))
    ELSE Raised

(* result = {"transcript": "", "speakers": [], "duration": 0.0} *)
ZeroedResult == [transcript |-> JStr(""), speakers |-> <<>>, duration |-> Rat(0, 1)]

(* lines 647-650: the contents of the items that have alternatives *)
RECURSIVE ItemWords(_)
ItemWords(items) ==
    IF items = <<>> THEN JList(<<>>)
    ELSE LET item == items[1]
             alternatives == Get(item, "alternatives", JNull)
             rest == ItemWords(Tail(items))
         IN  IF alternatives = Raised \/ rest = Raised THEN Raised
             ELSE IF ~Truthy(alternatives) THEN rest
             ELSE LET content == FirstGet(alternatives, "content", JStr(""))
                  IN  IF content = Raised THEN Raised
                      ELSE JList(<<content>> \o rest.l)

(* lines 645-651 *)
ItemsTranscript(results) ==
    IF ~Has("items", results) THEN JStr("")
    ELSE LET items == Item(results, "items")
             list == IF items = Raised THEN Raised ELSE Elements(items)
         IN  IF list = Raised THEN Raised ELSE Join(ItemWords(list.l))

(* lines 643-651 *)
Transcript(results) ==
    IF ~Has("transcripts", results) THEN ItemsTranscript(results)
    ELSE LET transcripts == Item(results, "transcripts")
         IN  IF transcripts = Raised THEN Raised
             ELSE IF Truthy(transcripts)
                  THEN FirstGet(transcripts, "transcript", JStr(""))
                  ELSE ItemsTranscript(results)

(* lines 724-727: the duration from the last item *)
Duration(results) ==
    IF ~Has("items", results) THEN Rat(0, 1)
    ELSE LET items == Item(results, "items")
         IN  IF items = Raised THEN Raised
             ELSE IF ~Truthy(items) THEN Rat(0, 1)
             ELSE LET last_item == LastOf(items)
                  IN  IF last_item = Raised THEN Raised
                      ELSE IF ~Iterable(last_item) THEN Raised
                      ELSE IF Has("end_time", last_item)
                           THEN Float(Item(last_item, "end_time"))
                           ELSE Rat(0, 1)

(* f"{x}" for the labels of the model: strings, None and integers *)
PyStr(x) ==
    CASE x.t = "str"  -> x.s
      [] x.t = "null" -> "None"
      [] x.t = "num"  -> ToString(x.n)

(* items.index(item): the first position that holds a value equal to item *)
IndexOf(items, item) ==
    CHOOSE i \in DOMAIN items :
        items[i] = item /\ \A j \in 1..(i - 1) : items[j] # item

(* lines 686-695: the content of a collected item, with the content of a   *)
(* punctuation item that follows it appended.  A content that is not a     *)
(* string makes += or the join of line 698 raise; both leave the try block *)
(* before the segment is appended                                          *)
WordWithPunct(items, item) ==
    LET content == FirstGet(Item(item, "alternatives"), "content", JStr(""))
        item_index == IndexOf(items, item)
    IN  IF content = Raised THEN Raised
        ELSE IF content.t # "str" THEN Raised
        ELSE IF item_index + 1 > Len(items) THEN content
        ELSE LET next_item == items[item_index + 1]
                 type == Get(next_item, "type", JNull)
             IN  IF type = Raised THEN Raised
                 ELSE IF type # JStr("punctuation") THEN content
                 ELSE LET punct == FirstGet(Item(next_item, "alternatives"),
                                            "content", JStr(""))
                      IN  IF punct = Raised THEN Raised
                          ELSE IF punct.t # "str" THEN Raised
                          ELSE JStr(content.s \o punct.s)

(* variant: the item overlaps the segment *)
WithinOverlap(segment_start, segment_end, item_start, item_end) ==
    RatLe(item_start, segment_end) /\ RatLe(segment_start, item_end)

(* line 684: segment_start <= item_start and item_end <= segment_end *)
Within(segment_start, segment_end, item_start, item_end) ==
    RatLe(segment_start, item_start) /\ RatLe(item_end, segment_end)

(* lines 678-695: the words of the items that lie within the segment *)
RECURSIVE SegmentWords(_, _, _, _)
SegmentWords(items, i, segment_start, segment_end) ==
    IF i > Len(items) THEN JList(<<>>)
    ELSE LET item == items[i]
             start_time == Get(item, "start_time", JNull)
             end_time == Get(item, "end_time", JNull)
             rest == SegmentWords(items, i + 1, segment_start, segment_end)
         IN  IF start_time = Raised \/ rest = Raised THEN Raised
             ELSE IF ~(Truthy(start_time) /\ Truthy(end_time)) THEN rest
             ELSE LET item_start == Float(start_time)
                      item_end == Float(end_time)
                  IN  IF item_start = Raised \/ item_end = Raised THEN Raised
                      ELSE IF ~Within(segment_start, segment_end,
                                      item_start, item_end) THEN rest
                      ELSE IF ~Truthy(Get(item, "alternatives", JNull)) THEN rest
                      ELSE LET word == WordWithPunct(items, item)
                           IN  IF word = Raised THEN Raised
                               ELSE JList(<<word>> \o rest.l)

NonEmpty(word) == word.s # ""

(* lines 698-699: " ".join(" ".join(segment_words).split()); the contents  *)
(* of the model hold no white space, so the split words are the non-empty  *)
(* contents                                                                *)
CleanText(segment_words) ==
    JoinStrings(SelectSeq(segment_words, NonEmpty))

(* lines 702-706 *)
SpeakerData(speaker_label, text, segment_start, segment_end) ==
    [speaker |-> "Speaker " \o PyStr(speaker_label),
     text |-> text,
     start_time |-> segment_start,
     end_time |-> segment_end]

(* variant: the segment appended whatever its text *)
EmitsAlways(segment_text) == TRUE

(* line 701: if segment_text *)
Emits(segment_text) == segment_text # ""

(* lines 671-708, one pass of 'for segment in segments': the segment that  *)
(* is appended, none, or an exception                                      *)
SegmentOut(segment, items) ==
    LET speaker_label == Get(segment, "speaker_label", JStr("Unknown"))
        segment_start == Float(Get(segment, "start_time", JNum(0)))
        segment_end == Float(Get(segment, "end_time", JNum(0)))
        list == Elements(items)
    IN  IF speaker_label = Raised \/ segment_start = Raised
              \/ segment_end = Raised \/ list = Raised
        THEN [kind |-> "raise"]
        ELSE LET segment_words == SegmentWords(list.l, 1, segment_start, segment_end)
             IN  IF segment_words = Raised THEN [kind |-> "raise"]
                 ELSE LET segment_text == CleanText(segment_words.l)
                      IN  IF ~Emits(segment_text)
                          THEN [kind |-> "none"]
                          ELSE [kind |-> "append",
                                speaker_data |-> SpeakerData(speaker_label, segment_text,
                                                             segment_start, segment_end)]

(* the loop of line 671: what it appended to result["speakers"], and       *)
(* whether it was left by an exception                                     *)
RECURSIVE SegmentsLoop(_, _)
SegmentsLoop(segments, items) ==
    IF segments = <<>> THEN [speakers |-> <<>>, raised |-> FALSE]
    ELSE LET out == SegmentOut(segments[1], items)
         IN  IF out.kind = "raise" THEN [speakers |-> <<>>, raised |-> TRUE]
             ELSE LET rest == SegmentsLoop(Tail(segments), items)
                  IN  [speakers |-> (IF out.kind = "append"
                                     THEN <<out.speaker_data>>
                                     ELSE <<>>) \o rest.speakers,
                       raised |-> rest.raised]

(* transcription.process_transcription_result of the speacher package: it  *)
(* returns or it raises; its return value is not used                      *)
HelperOutcomes == {"returns", "raises"}

(* lines 660-708, the try block *)
TryBlock(results, helper) ==
    LET segments == Get(Item(results, "speaker_labels"), "segments", JList(<<>>))
        items == Get(results, "items", JList(<<>>))
        list == IF segments = Raised THEN Raised ELSE Elements(segments)
    IN  IF helper = "raises" \/ list = Raised \/ items = Raised
        THEN [speakers |-> <<>>, raised |-> TRUE]
        ELSE SegmentsLoop(list.l, items)

(* lines 713-721, the except block: a segment without text for every       *)
(* provider segment                                                        *)
RECURSIVE FallbackLoop(_)
FallbackLoop(segments) ==
    IF segments = <<>> THEN JList(<<>>)
    ELSE LET segment == segments[1]
             speaker_label == Get(segment, "speaker_label", JStr("Unknown"))
             start_time == Float(Get(segment, "start_time", JNum(0)))
             end_time == Float(Get(segment, "end_time", JNum(0)))
             rest == FallbackLoop(Tail(segments))
         IN  IF speaker_label = Raised \/ start_time = Raised
                   \/ end_time = Raised \/ rest = Raised
             THEN Raised
             ELSE JList(<<SpeakerData(speaker_label, "", start_time, end_time)>>
                        \o rest.l)

ExceptBlock(results) ==
    LET segments == Get(Item(results, "speaker_labels"), "segments", JList(<<>>))
        list == IF segments = Raised THEN Raised ELSE Elements(segments)
    IN  IF list = Raised THEN Raised ELSE FallbackLoop(list.l)

(* variant: the block entered whenever the payload has speaker labels *)
DiarizesWhenLabelled(results, enable_diarization) ==
    Has("speaker_labels", results)

(* line 654: if enable_diarization and "speaker_labels" in results *)
Diarizes(results, enable_diarization) ==
    enable_diarization /\ Has("speaker_labels", results)

(* lines 654-721: result["speakers"] *)
Speakers(results, enable_diarization, helper) ==
    IF ~Diarizes(results, enable_diarization) THEN JList(<<>>)
    ELSE LET try == TryBlock(results, helper)
         IN  IF ~try.raised THEN JList(try.speakers)
             ELSE LET except == ExceptBlock(results)
                  IN  IF except = Raised THEN Raised
                      ELSE JList(try.speakers \o except.l)

Returns(result) == [kind |-> "return", result |-> result]

Raises == [kind |-> "raise"]

(* lines 636-727: the payload has "results" *)
FromResults(results, enable_diarization, helper) ==
    IF results = Raised THEN Raises
    ELSE IF ~Truthy(results) THEN Returns(ZeroedResult)
    ELSE IF ~Iterable(results) THEN Raises
    ELSE LET transcript == Transcript(results)
             speakers == Speakers(results, enable_diarization, helper)
             duration == Duration(results)
         IN  IF transcript = Raised \/ speakers = Raised \/ duration = Raised
             THEN Raises
             ELSE Returns([transcript |-> transcript,
                           speakers |-> speakers.l,
                           duration |-> duration])

(* variant: the duration taken as seconds already *)
FromDisplayTextNoDivision(transcription_data) ==
    LET duration == IF Has("duration", transcription_data)
                    THEN Float(Item(transcription_data, "duration"))
                    ELSE Rat(0, 1)
    IN  IF duration = Raised THEN Raises
        ELSE Returns([transcript |-> Get(transcription_data, "displayText", JStr("")),
                      speakers |-> <<>>,
                      duration |-> duration])

(* lines 730-733: the payload has "displayText" *)
FromDisplayText(transcription_data) ==
    LET duration == IF Has("duration", transcription_data)
                    THEN TicksToSeconds(Item(transcription_data, "duration"))
                    ELSE Rat(0, 1)
    IN  IF duration = Raised THEN Raises
        ELSE Returns([transcript |-> Get(transcription_data, "displayText", JStr("")),
                      speakers |-> <<>>,
                      duration |-> duration])

(* lines 738-740: the first alternative of every entry that has one *)
RECURSIVE AlternativeTranscripts(_)
AlternativeTranscripts(entries) ==
    IF entries = <<>> THEN JList(<<>>)
    ELSE LET res == entries[1]
             rest == AlternativeTranscripts(Tail(entries))
         IN  IF ~Iterable(res) \/ rest = Raised THEN Raised
             ELSE IF ~Has("alternatives", res) THEN rest
             ELSE LET alternatives == Item(res, "alternatives")
                  IN  IF alternatives = Raised THEN Raised
                      ELSE IF ~Truthy(alternatives) THEN rest
                      ELSE LET transcript == FirstGet(alternatives, "transcript", JStr(""))
                           IN  IF transcript = Raised THEN Raised
                               ELSE JList(<<transcript>> \o rest.l)

(* lines 736-741: "results" is a list *)
FromResultsList(transcription_data) ==
    LET transcript == Join(AlternativeTranscripts(Item(transcription_data, "results").l))
    IN  IF transcript = Raised THEN Raises
        ELSE Returns([transcript |-> transcript,
                      speakers |-> <<>>,
                      duration |-> Rat(0, 1)])

(* process_transcription_data(transcription_data, enable_diarization);     *)
(* helper is what the call of line 662 does.  transcription_data is None   *)
(* or a dict.                                                              *)
process_transcription_data(transcription_data, enable_diarization, helper) ==
    IF ~Truthy(transcription_data) THEN Returns(ZeroedResult)
    ELSE IF Has("results", transcription_data)
         THEN FromResults(Get(transcription_data, "results", JNull),
                          enable_diarization, helper)
    ELSE IF Has("displayText", transcription_data)
         THEN FromDisplayText(transcription_data)
    ELSE IF Has("results", transcription_data)
              /\ Item(transcription_data, "results").t = "list"
         THEN FromResultsList(transcription_data)
    ELSE Returns(ZeroedResult)

(* Inputs of process_transcription_data.  An AWS item is a word with its   *)
(* timing or a punctuation mark; AWS gives punctuation no timing, the      *)
(* timed comma is the variant other providers of this shape produce.       *)
MaxItems == 3

Alternatives(key, text) == JList(<<JDict(key :> JStr(text))>>)

Word(content, start_time, end_time) ==
    JDict([alternatives |-> Alternatives("content", content),
           start_time |-> JStr(start_time),
           end_time |-> JStr(end_time),
           type |-> JStr("pronunciation")])

Punctuation(content) ==
    JDict([alternatives |-> Alternatives("content", content),
           type |-> JStr("punctuation")])

TimedPunctuation(content, start_time, end_time) ==
    JDict([alternatives |-> Alternatives("content", content),
           start_time |-> JStr(start_time),
           end_time |-> JStr(end_time),
           type |-> JStr("punctuation")])

(* an item whose content is null *)
NullWord(start_time, end_time) ==
    JDict([alternatives |-> JList(<<JDict([content |-> JNull])>>),
           start_time |-> JStr(start_time),
           end_time |-> JStr(end_time),
           type |-> JStr("pronunciation")])

ItemPool ==
    { Word("hello", "0.0", "0.5"),
      Punctuation(","),
      TimedPunctuation(",", "0.5", "0.5"),
      Word("world", "0.6", "1.0"),
      Word("uh", "1.9", "2.1"),
      NullWord("2.0", "3.0") }

ItemLists == UNION {[1..k -> ItemPool] : k \in 0..MaxItems}

Segment(speaker_label, start_time, end_time) ==
    JDict([speaker_label |-> JStr(speaker_label),
           start_time |-> JStr(start_time),
           end_time |-> JStr(end_time)])

SpeakerLabels ==
    { JDict([segments |-> JList(<<>>)]),
      JDict([segments |-> JList(<<Segment("spk_0", "0.0", "2.0")>>)]),
      JDict([segments |-> JList(<<Segment("spk_0", "0.0", "2.0"),
                                  Segment("spk_1", "2.0", "3.0")>>)]),
      JDict([segments |-> JList(<<Segment("spk_0", "0.0", "1.0"),
                                  Segment("spk_1", "1.0", "3.0")>>)]),
      JDict([segments |-> JList(<<Segment("spk_0", "2.0", "1.0")>>)]),
      JNum(5) }

TranscriptLists ==
    { JList(<<>>),
      JList(<<JDict([transcript |-> JStr("hello, world")])>>) }

(* the dicts with key k bound to a value of S, and the dict without k *)
Optional(k, S) == {<<>>} \cup {k :> v : v \in S}

(* Shape A: "results" is a dict of transcripts, items and speaker_labels *)
ShapeAPayloads ==
    { JDict([jobName |-> JStr("speacher-1"), results |-> JDict(a @@ b @@ c)]) :
        a \in Optional("transcripts", TranscriptLists),
        b \in Optional("items", {JList(items) : items \in ItemLists}),
        c \in Optional("speaker_labels", SpeakerLabels) }

(* Shape B: "displayText", with the duration in units of 100 ns *)
ShapeBPayloads ==
    { JDict(("displayText" :> JStr(text)) @@ d) :
        text \in {"hi there", "Azure transcription placeholder", ""},
        d \in Optional("duration", {JNum(ticks) : ticks \in {0, 10000000, 15000000, 20000000}}) }

(* Shape C: "results" is a list of entries with alternatives *)
ShapeCPayloads ==
    { JDict([results |-> JList(<<>>)]),
      JDict([results |-> JList(<<JDict([alternatives |-> Alternatives("transcript", "hello")])>>)]),
      JDict([results |-> JList(<<JDict([alternatives |-> Alternatives("transcript", "hello")]),
                                 JDict([alternatives |-> Alternatives("transcript", "world")])>>)]) }

(* None, the empty dict, and payloads of none of the three shapes *)
OtherPayloads ==
    { JNull,
      JDict(<<>>),
      JDict([error |-> JStr("n/a")]),
      JDict([text |-> JStr("hi there"), duration |-> JNum(20000000)]),
      JDict([results |-> JNull]),
      JDict([results |-> JNum(0)]),
      JDict([results |-> JNum(5)]),
      JDict([results |-> JStr("")]),
      JDict([results |-> JStr("n/a")]) }

Payloads == ShapeAPayloads \cup ShapeBPayloads \cup ShapeCPayloads \cup OtherPayloads

NormCalls ==
    { [pc |-> "called", transcription_data |-> data,
       enable_diarization |-> flag, helper |-> h] :
        data \in Payloads, flag \in BOOLEAN, h \in HelperOutcomes }

InitNorm ==
    /\ StoreIdle
    /\ clock = 0
    /\ wait = WIdle
    /\ pipe = PIdle
    /\ norm \in NormCalls
    /\ LateIdle

(* the call returns its result or raises *)
normalize ==
    /\ norm.pc = "called"
    /\ norm' = [pc |-> "done",
                transcription_data |-> norm.transcription_data,
                enable_diarization |-> norm.enable_diarization,
                helper |-> norm.helper,
                out |-> process_transcription_data(norm.transcription_data,
                                                   norm.enable_diarization,
                                                   norm.helper)]
    /\ UNCHANGED <<storeVars, clock, wait, pipe, lateVars>>

NextNorm == normalize

SpecNorm == InitNorm /\ [][NextNorm]_vars

----------------------------------------------------------------------------
(* process_aws_transcription (main.py 279-415), process_azure_transcription *)
(* (418-462), process_gcp_transcription (465-513).  pipe.pc is the next     *)
(* step of the call; uploaded says that the upload succeeded, remote that   *)
(* the uploaded object is still there, deletes counts the calls of          *)
(* delete_file_from_s3 / delete_blob / delete_from_gcs and cleanup is what  *)
(* the last of them did.                                                    *)

Providers == {"aws", "azure", "gcp"}

PipeStart(provider) ==
    [pc |-> "config", provider |-> provider,
     uploaded |-> FALSE, remote |-> FALSE, deletes |-> 0, cleanup |-> "none",
     data |-> JNull, result |-> None, ret |-> None, err |-> "", done |-> <<>>,
     job_info |-> None]

(* the calls the pipeline has made so far, in their order *)
Did(p, step) == [p EXCEPT !.done = Append(@, step)]

PipeRaise(p, message) == [p EXCEPT !.pc = "raised", !.err = message]

(* the call of process_<provider>_transcription *)
process_transcription(provider) ==
    /\ pipe.pc = "idle"
    /\ wait.pc = "idle"
    /\ pipe' = PipeStart(provider)
    /\ UNCHANGED <<clock, wait>>

(* what the checks of the stored API keys and of the storage settings do   *)
(* (284-326, 423-437, 470-491)                                             *)
ConfigOutcomes(provider) ==
    IF provider = "azure"
    THEN {"ok", "HTTPException", "ValueError"}
    ELSE {"ok", "HTTPException"}

pipe_config(outcome) ==
    /\ pipe.pc = "config"
    /\ outcome \in ConfigOutcomes(pipe.provider)
    /\ pipe' = IF outcome = "ok"
               THEN [pipe EXCEPT !.pc = "upload"]
               ELSE PipeRaise(pipe, outcome)
    /\ UNCHANGED <<clock, wait>>

(* upload_file_to_s3 returns the URI or raises; upload_to_blob and         *)
(* upload_to_gcs return the URI or None                                    *)
UploadFailure(provider) ==
    CASE provider = "aws"   -> "Failed to upload to S3"
      [] provider = "azure" -> "Failed to upload file to Azure Blob Storage"
      [] provider = "gcp"   -> "Failed to upload file to Google Cloud Storage"

pipe_upload(ok) ==
    /\ pipe.pc = "upload"
    /\ pipe' = IF ok
               THEN [Did(pipe, "upload") EXCEPT
                         !.pc = IF pipe.provider = "aws"
                                THEN "start" ELSE "transcribe",
                         !.uploaded = TRUE, !.remote = TRUE]
               ELSE PipeRaise(Did(pipe, "upload"), UploadFailure(pipe.provider))
    /\ UNCHANGED <<clock, wait>>

(* lines 362-373: start_transcription_job returns the response or raises;  *)
(* then wait_for_job_completion(job_name), with its default timeout        *)
pipe_start(ok) ==
    /\ pipe.pc = "start"
    /\ IF ok
       THEN /\ pipe' = [Did(Did(pipe, "start"), "wait") EXCEPT !.pc = "wait"]
            /\ wait' = WaitStart(DefaultTimeout, clock)
       ELSE /\ pipe' = PipeRaise(Did(pipe, "start"),
                                 "Failed to start transcription job")
            /\ UNCHANGED wait
    /\ UNCHANGED clock

(* variant: the test of line 391 left out *)
HasTranscriptAlways(job_info) == TRUE

(* line 391: "Transcript" in job_info *)
HasTranscript(job_info) == "Transcript" \in DOMAIN job_info

(* lines 373-396: the exception of wait_for_job_completion propagates; the *)
(* job record it returned has to be non-empty and to have a Transcript     *)
pipe_job_info ==
    /\ pipe.pc = "wait"
    /\ wait.pc \in {"returned", "raised"}
    /\ pipe' = IF wait.pc = "raised" THEN PipeRaise(pipe, wait.err)
               ELSE LET job_info == wait.ret[1]
                        got == [pipe EXCEPT !.job_info = Some(job_info)]
                    IN  IF DOMAIN job_info = {}
                        THEN PipeRaise(got, "AWS transcription job failed")
                        ELSE IF ~HasTranscript(job_info)
                        THEN PipeRaise(got, "No transcript found in job")
                        ELSE [got EXCEPT !.pc = "download"]
    /\ wait' = WIdle
    /\ UNCHANGED clock

(* the payloads the providers return in the model *)
AwsPayloads ==
    { JDict([jobName |-> JStr("speacher-1"),
             results |-> JDict([transcripts |-> JList(<<JDict([transcript |-> JStr("hello, world")])>>),
                                items |-> JList(<<Word("hello", "0.0", "0.5"),
                                                  Punctuation(","),
                                                  Word("world", "0.6", "1.0")>>),
                                speaker_labels |-> JDict([segments |->
                                    JList(<<Segment("spk_0", "0.0", "2.0")>>)])])]),
      JDict([results |-> JNum(5)]) }

(* transcribe_from_blob: the placeholder response *)
AzurePayload ==
    JDict([displayText |-> JStr("Azure transcription placeholder"),
           duration |-> JNum(10000000)])

(* transcribe_from_gcs: {"results": [...]} *)
GcpPayloads ==
    { JDict([results |-> JList(<<>>)]),
      JDict([results |-> JList(<<JDict([alternatives |->
                                   Alternatives("transcript", "hello")])>>)]) }

(* lines 398-402: download_transcription_result returns the parsed JSON or *)
(* raises                                                                  *)
pipe_download(ok, data) ==
    /\ pipe.pc = "download"
    /\ data \in AwsPayloads
    /\ pipe' = IF ok
               THEN [Did(pipe, "download") EXCEPT !.pc = "normalize", !.data = data]
               ELSE PipeRaise(Did(pipe, "download"),
                              "Failed to download transcription")
    /\ UNCHANGED <<clock, wait>>

(* lines 448-451, 499-502: transcribe_from_blob returns its placeholder;   *)
(* transcribe_from_gcs returns the results or, on any exception, None      *)
TranscribeOutcomes(provider) ==
    IF provider = "azure"
    THEN {AzurePayload}
    ELSE GcpPayloads \cup {JNull}

TranscribeFailure(provider) ==
    IF provider = "azure" THEN "Azure transcription failed"
    ELSE "GCP transcription failed"

pipe_transcribe(data) ==
    /\ pipe.pc = "transcribe"
    /\ data \in TranscribeOutcomes(pipe.provider)
    /\ pipe' = IF Truthy(data)
               THEN [Did(pipe, "transcribe") EXCEPT !.pc = "normalize", !.data = data]
               ELSE PipeRaise(Did(pipe, "transcribe"),
                              TranscribeFailure(pipe.provider))
    /\ UNCHANGED <<clock, wait>>

(* lines 406, 454, 505: result = process_transcription_data(...); the      *)
(* enable_diarization argument of the call is not used before this line    *)
pipe_normalize(enable_diarization, helper) ==
    /\ pipe.pc = "normalize"
    /\ LET out == process_transcription_data(pipe.data, enable_diarization, helper)
       IN  pipe' = IF out.kind = "return"
                   THEN [Did(pipe, "normalize") EXCEPT
                             !.pc = "cleanup", !.result = Some(out.result)]
                   ELSE PipeRaise(Did(pipe, "normalize"), "TypeError")
    /\ UNCHANGED <<clock, wait>>

(* delete_file_from_s3 returns True or raises; delete_blob and             *)
(* delete_from_gcs return True or False                                    *)
DeleteOutcomes(provider) ==
    IF provider = "aws" THEN {"True", "raise"} ELSE {"True", "False"}

(* variant: the delete called outside try/except *)
AfterDeleteUnguarded(p, outcome) ==
    IF outcome = "raise"
    THEN [p EXCEPT !.pc = "raised", !.err = "Failed to delete from S3"]
    ELSE [p EXCEPT !.pc = "returned", !.ret = p.result]

(* lines 409-415, 457-462, 508-513: try: delete except Exception: pass;    *)
(* return result                                                           *)
AfterDelete(p, outcome) == [p EXCEPT !.pc = "returned", !.ret = p.result]

pipe_cleanup(outcome) ==
    /\ pipe.pc = "cleanup"
    /\ outcome \in DeleteOutcomes(pipe.provider)
    /\ pipe' = AfterDelete([Did(pipe, "delete") EXCEPT !.deletes = @ + 1,
                                        !.cleanup = outcome,
                                        !.remote = (outcome # "True")],
                           outcome)
    /\ UNCHANGED <<clock, wait>>

InitPipe ==
    /\ StoreIdle
    /\ clock = 0
    /\ wait = WIdle
    /\ pipe = PIdle
    /\ norm = NIdle
    /\ LateIdle

PipeRest == UNCHANGED <<storeVars, norm, lateVars>>

NextPipe ==
    \/ \E provider \in Providers : (process_transcription(provider) /\ PipeRest)
    \/ \E outcome \in {"ok", "HTTPException", "ValueError"} :
           (pipe_config(outcome) /\ PipeRest)
    \/ \E ok \in BOOLEAN : (pipe_upload(ok) /\ PipeRest)
    \/ \E ok \in BOOLEAN : (pipe_start(ok) /\ PipeRest)
    \/ (pipe.pc = "wait" /\ wait_check /\ UNCHANGED pipe /\ PipeRest)
    \/ \E o \in PollOutcomes, d \in Latencies :
           (pipe.pc = "wait" /\ wait_poll(o, d) /\ UNCHANGED pipe /\ PipeRest)
    \/ \E d \in Latencies :
           (pipe.pc = "wait" /\ wait_sleep(d) /\ UNCHANGED pipe /\ PipeRest)
    \/ (pipe_job_info /\ PipeRest)
    \/ \E ok \in BOOLEAN, data \in AwsPayloads : (pipe_download(ok, data) /\ PipeRest)
    \/ \E data \in GcpPayloads \cup {AzurePayload, JNull} :
           (pipe_transcribe(data) /\ PipeRest)
    \/ \E flag \in BOOLEAN, helper \in HelperOutcomes :
           (pipe_normalize(flag, helper) /\ PipeRest)
    \/ \E outcome \in {"True", "False", "raise"} : (pipe_cleanup(outcome) /\ PipeRest)

SpecPipe == InitPipe /\ [][NextPipe]_vars

----------------------------------------------------------------------------
(* calculate_cost (main.py 754-760) *)

(* longest duration of the model, in seconds *)
MaxSeconds == 300

(* duration_seconds / 60 *)
SecondsPerMinute == 60

(* int or float as a float *)
AsFloat(x) == IF x.t = "num" THEN Rat(x.n, 1) ELSE x

(* x / k for a positive int k *)
RatDiv(x, k) == Rat(x.num, x.den * k)

(* x * y *)
RatMul(x, y) == Rat(x.num * y.num, x.den * y.den)

(* line 758: costs, USD per minute *)
costs == [aws |-> Rat(24, 1000), azure |-> Rat(16, 1000), gcp |-> Rat(18, 1000)]

(* costs.get(provider, 0.02) *)
CostsGet(provider) ==
    IF provider \in DOMAIN costs THEN costs[provider] ELSE Rat(2, 100)

(* variant: the duration taken as minutes already *)
DurationMinutesNoDivision(duration_seconds) == AsFloat(duration_seconds)

(* line 756: duration_minutes; '/' raises TypeError unless duration_seconds *)
(* is a number                                                             *)
DurationMinutes(duration_seconds) ==
    IF duration_seconds.t \in {"num", "float"}
    THEN RatDiv(AsFloat(duration_seconds), SecondsPerMinute)
    ELSE Raised

calculate_cost(provider, duration_seconds) ==
    LET duration_minutes == DurationMinutes(duration_seconds)
    IN  IF duration_minutes = Raised THEN Raises
        ELSE Returns(RatMul(CostsGet(provider), duration_minutes))

(* the providers of the endpoint and names outside the table *)
CostProviders == Providers \cup {"other", ""}

(* result.get("duration", 0) of line 234: the int 0 or the float of the    *)
(* normalizer, here in steps of half a second                              *)
CostDurations == {JNum(0)} \cup { Rat(k, 2) : k \in 0..(2 * MaxSeconds) }

CostCalls ==
    { [pc |-> "called", provider |-> provider, duration_seconds |-> d] :
          provider \in CostProviders, d \in CostDurations }

InitCost ==
    /\ StoreIdle
    /\ clock = 0
    /\ wait = WIdle
    /\ pipe = PIdle
    /\ norm = NIdle
    /\ req = QIdle
    /\ tasks = TIdle
    /\ reader = RIdle
    /\ cost \in CostCalls

(* the call returns its result or raises *)
cost_return ==
    /\ cost.pc = "called"
    /\ cost' = [pc |-> "done",
                provider |-> cost.provider,
                duration_seconds |-> cost.duration_seconds,
                out |-> calculate_cost(cost.provider, cost.duration_seconds)]
    /\ UNCHANGED <<storeVars, clock, wait, pipe, norm, tasks, reader, req>>

NextCost == cost_return

SpecCost == InitCost /\ [][NextCost]_vars

----------------------------------------------------------------------------
(* Two tasks of the event loop calling TranscriptionJobManager for one job *)
(* (transcription_jobs.py 70-110, 134-143)                                 *)

TaskIds == 1..2

(* the job both tasks name *)
TheJob == 1

(* the store after create_job(a, TheJob, 0) on the empty manager *)
AfterCreate(a) ==
    /\ jobs = DictSet(<<>>, TheJob, NewJob(TheJob, a, 0))
    /\ jobOrder = <<TheJob>>
    /\ returned = <<TheJob>>
    /\ now = 0
    /\ nops = 1
    /\ pre = [jobs |-> <<>>, jobOrder |-> <<>>]
    /\ last = [op |-> "create_job", job_id |-> TheJob, args |-> a, err |-> "",
               ret |-> TheJob]

(* the calls a task makes: update_progress(TheJob, ...) or delete_job(TheJob) *)
TaskCalls ==
    { [op |-> "update_progress", args |-> a, pc |-> "ready", err |-> "",
       update_data |-> <<>>, stored |-> None] : a \in UpdateArgs }
    \cup
    { [op |-> "delete_job", args |-> <<>>, pc |-> "ready", err |-> "",
       update_data |-> <<>>, stored |-> None] }

(* raise KeyError(f"Job not found: {job_id}") of line 93, and the KeyError *)
(* of the subscript self.jobs[job_id] of line 110, whose message is the key *)
JobNotFoundError == "KeyError: Job not found"

SubscriptError == "KeyError: job_id"

(* variant: the running task can be suspended before any statement *)
SuspendsAnywhere(pc) == TRUE

(* update_progress and delete_job are plain functions without an await:   *)
(* the event loop runs no other task before the call has returned          *)
Suspends(pc) == FALSE

(* the task may execute its next statement *)
CanRun(i) == tasks.pc = "run" /\ tasks.running \in {0, i}

(* the task that runs after task i has reached pc *)
RunningAfter(i, pc) ==
    IF pc \in {"done", "raised"} \/ Suspends(pc) THEN 0 ELSE i

TaskStep(i, task) ==
    tasks' = [tasks EXCEPT !.t[i] = task, !.running = RunningAfter(i, task.pc)]

(* lines 92-93 *)
task_check(i) ==
    LET task == tasks.t[i]
    IN  /\ CanRun(i)
        /\ task.op = "update_progress"
        /\ task.pc = "ready"
        /\ IF JobNotFound(TheJob)
           THEN TaskStep(i, [task EXCEPT !.pc = "raised", !.err = JobNotFoundError])
           ELSE TaskStep(i, [task EXCEPT !.pc = "build"])
        /\ UNCHANGED <<storeVars, clock, wait, pipe, norm, cost, reader, req>>

(* lines 96-108 *)
task_build(i) ==
    LET task == tasks.t[i]
    IN  /\ CanRun(i)
        /\ task.pc = "build"
        /\ \E t \in ClockReadings :
               /\ TaskStep(i, [task EXCEPT !.pc = "apply",
                                           !.update_data = UpdateData(task.args, t)])
               /\ now' = t
        /\ UNCHANGED <<jobs, jobOrder, returned, last, pre, nops,
                       clock, wait, pipe, norm, cost, reader, req>>

(* line 110: self.jobs[job_id].update(update_data) *)
task_apply(i) ==
    LET task == tasks.t[i]
    IN  /\ CanRun(i)
        /\ task.pc = "apply"
        /\ IF TheJob \notin DOMAIN jobs
           THEN /\ TaskStep(i, [task EXCEPT !.pc = "raised", !.err = SubscriptError])
                /\ UNCHANGED jobs
           ELSE LET record == DictUpdate(jobs[TheJob], task.update_data)
                IN  /\ jobs' = [jobs EXCEPT ![TheJob] = record]
                    /\ TaskStep(i, [task EXCEPT !.pc = "done",
                                                !.stored = Some(record)])
        /\ UNCHANGED <<jobOrder, returned, now, last, pre, nops,
                       clock, wait, pipe, norm, cost, reader, req>>

(* line 143: self.jobs.pop(job_id, None) *)
task_delete(i) ==
    LET task == tasks.t[i]
    IN  /\ CanRun(i)
        /\ task.op = "delete_job"
        /\ task.pc = "ready"
        /\ jobs' = DictDel(jobs, TheJob)
        /\ jobOrder' = SeqDel(jobOrder, TheJob)
        /\ TaskStep(i, [task EXCEPT !.pc = "done"])
        /\ UNCHANGED <<returned, now, last, pre, nops,
                       clock, wait, pipe, norm, cost, reader, req>>

InitTasks ==
    /\ \E a \in CreateArgs : AfterCreate(a)
    /\ clock = 0
    /\ wait = WIdle
    /\ pipe = PIdle
    /\ norm = NIdle
    /\ req = QIdle
    /\ cost = CIdle
    /\ reader = RIdle
    /\ \E calls \in [TaskIds -> TaskCalls] :
           tasks = [pc |-> "run", running |-> 0, t |-> calls,
                    start |-> jobs[TheJob]]

NextTasks ==
    \/ \E i \in TaskIds : task_check(i)
    \/ \E i \in TaskIds : task_build(i)
    \/ \E i \in TaskIds : task_apply(i)
    \/ \E i \in TaskIds : task_delete(i)

SpecTasks == InitTasks /\ [][NextTasks]_vars

----------------------------------------------------------------------------
(* A caller that keeps the value returned by get_job_status or by          *)
(* get_user_jobs (transcription_jobs.py 112-132).  Both return the dict    *)
(* objects stored in self.jobs: refs are the objects the reader holds      *)
(* (an object is named by its job_id, which is never used again), held is  *)
(* what they contain now, seen what they contained when they were returned *)

(* what the held objects contain when the manager's dict is store: an      *)
(* object still stored has the stored content, a popped one keeps its own  *)
Deref(store) ==
    [reader EXCEPT !.held = [i \in DOMAIN reader.refs |->
                                IF reader.refs[i] \in DOMAIN store
                                THEN store[reader.refs[i]]
                                ELSE reader.held[i]]]

(* the keys of the records get_user_jobs returns, in dict order *)
UserJobKeys(user_id) == SelectSeq(jobOrder, LAMBDA k : jobs[k].user_id = user_id)

(* record = manager.get_job_status(job_id) *)
reader_get(job_id) ==
    /\ reader.via = "none"
    /\ get_job_status(job_id)
    /\ reader' = IF JobNotFound(job_id)
                 THEN [reader EXCEPT !.via = "get_job_status"]
                 ELSE [reader EXCEPT !.via = "get_job_status",
                                     !.refs = <<job_id>>,
                                     !.held = <<jobs[job_id]>>,
                                     !.seen = <<jobs[job_id]>>]
    /\ UNCHANGED <<clock, wait, pipe, norm, cost, tasks, req>>

(* records = manager.get_user_jobs(user_id) *)
reader_list(user_id) ==
    /\ reader.via = "none"
    /\ get_user_jobs(user_id)
    /\ reader' = [reader EXCEPT !.via = "get_user_jobs",
                                !.refs = UserJobKeys(user_id),
                                !.held = UserJobs(user_id),
                                !.seen = UserJobs(user_id)]
    /\ UNCHANGED <<clock, wait, pipe, norm, cost, tasks, req>>

(* update_progress by any caller: line 110 updates the stored object in    *)
(* place                                                                   *)
reader_update(job_id) ==
    /\ \E a \in UpdateArgs, t \in ClockReadings : update_progress(job_id, a, t)
    /\ reader' = Deref(jobs')
    /\ UNCHANGED <<clock, wait, pipe, norm, cost, tasks, req>>

(* delete_job by any caller: line 143 removes the key, the object stays    *)
(* with whoever holds it                                                   *)
reader_delete(job_id) ==
    /\ delete_job(job_id)
    /\ reader' = Deref(jobs')
    /\ UNCHANGED <<clock, wait, pipe, norm, cost, tasks, req>>

(* the reader's own change of a returned record: record["status"] = ...    *)
reader_write ==
    /\ ~reader.wrote
    /\ \E i \in DOMAIN reader.refs :
           LET job_id == reader.refs[i]
               record == [reader.held[i] EXCEPT !.status = "tampered"]
           IN  /\ reader' = [reader EXCEPT !.held[i] = record, !.wrote = TRUE]
               /\ jobs' = IF job_id \in DOMAIN jobs
                          THEN [jobs EXCEPT ![job_id] = record]
                          ELSE jobs
               /\ last' = [op |-> "reader_write", job_id |-> job_id,
                           args |-> <<>>, err |-> "", ret |-> None]
    /\ pre' = [jobs |-> jobs, jobOrder |-> jobOrder]
    /\ UNCHANGED <<jobOrder, returned, now, nops,
                   clock, wait, pipe, norm, cost, tasks, req>>

InitReader ==
    /\ \E a \in CreateArgs : AfterCreate(a)
    /\ clock = 0
    /\ wait = WIdle
    /\ pipe = PIdle
    /\ norm = NIdle
    /\ req = QIdle
    /\ cost = CIdle
    /\ tasks = TIdle
    /\ reader = [pc |-> "run", via |-> "none", refs |-> <<>>, held |-> <<>>,
                 seen |-> <<>>, wrote |-> FALSE]

NextReader ==
    \/ \E job_id \in JobIds : reader_get(job_id)
    \/ \E user_id \in Users : reader_list(user_id)
    \/ \E job_id \in JobIds : reader_update(job_id)
    \/ \E job_id \in JobIds : reader_delete(job_id)
    \/ reader_write

SpecReader == InitReader /\ [][NextReader]_vars

----------------------------------------------------------------------------
(* transcribe (main.py 120-276), the handler of POST /api/transcribe, seen *)
(* from the temporary file it saves the upload to.  req.pc is the next     *)
(* step of the request; temp_file is the state of the path on disk;        *)
(* removals counts the calls of os.remove; pending is what the body of the *)
(* try statement of line 195 decided and response what the caller gets.    *)
(* The outcomes of the file system, of the provider call and of the        *)
(* database are inputs.                                                    *)

MAX_FILE_SIZE == 100 * 1024 * 1024

RequestProviders == {"aws", "azure", "gcp", "ibm"}

FileSizes == {0, 1024, MAX_FILE_SIZE, MAX_FILE_SIZE + 1}

HTTPException(status_code, detail) ==
    [kind |-> "HTTPException", status_code |-> status_code, detail |-> detail]

TranscriptionResponse(id) ==
    [kind |-> "TranscriptionResponse", status_code |-> 200, detail |-> id]

Requests ==
    { [pc |-> "validate", provider |-> p, valid_type |-> v, size |-> n,
       is_valid |-> a, temp_file |-> "none", removals |-> 0,
       remove_failed |-> FALSE, pending |-> None, response |-> None] :
        p \in RequestProviders, v \in BOOLEAN, n \in FileSizes, a \in BOOLEAN }

(* the handler is left with the exception or the response r *)
Leaves(q, r) == [q EXCEPT !.pc = "done", !.response = Some(r)]

(* the body of the try statement of line 195 is left with r: the finally   *)
(* clause runs next                                                        *)
LeavesTry(q, r) == [q EXCEPT !.pc = "finally", !.pending = Some(r)]

ReqRest == UNCHANGED <<storeVars, clock, wait, pipe, norm, cost, tasks, reader>>

(* lines 137-184: the checks made before anything is written *)
transcribe_validate ==
    /\ req.pc = "validate"
    /\ req' = IF ~req.valid_type
              THEN Leaves(req, HTTPException(400, "Invalid format"))
              ELSE IF req.size = 0
              THEN Leaves(req, HTTPException(400, "File is empty"))
              ELSE IF req.size > MAX_FILE_SIZE
              THEN Leaves(req, HTTPException(413, "File too large"))
              ELSE IF ~req.is_valid
              THEN Leaves(req, HTTPException(400, "message"))
              ELSE [req EXCEPT !.pc = "save"]

(* lines 187-193: NamedTemporaryFile(delete=False) creates the file, then  *)
(* tmp.write fills it; either can fail, and the except clause of line 192  *)
(* raises the 500 outside the try statement of line 195                    *)
transcribe_save ==
    /\ req.pc = "save"
    /\ \E outcome \in {"saved", "create_fails", "write_fails"} :
          req' = CASE outcome = "saved" ->
                        [req EXCEPT !.pc = "process", !.temp_file = "present"]
                   [] outcome = "create_fails" ->
                        Leaves(req, HTTPException(500, "Could not save uploaded file"))
                   [] outcome = "write_fails" ->
                        Leaves([req EXCEPT !.temp_file = "present"],
                               HTTPException(500, "Could not save uploaded file"))

(* lines 196-219: the provider call.  For aws every exception becomes the  *)
(* 500 of line 208; for azure and gcp an HTTPException passes through      *)
(* line 266 and any other exception becomes the 500 of line 269            *)
transcribe_process ==
    /\ req.pc = "process"
    /\ \E outcome \in {"result", "raises", "raises_http"} :
          req' = IF req.provider \notin {"aws", "azure", "gcp"}
                 THEN LeavesTry(req, HTTPException(400, "Invalid provider"))
                 ELSE IF outcome = "result"
                 THEN [req EXCEPT !.pc = "store"]
                 ELSE IF req.provider = "aws"
                 THEN LeavesTry(req, HTTPException(500, "AWS transcription failed"))
                 ELSE IF outcome = "raises_http"
                 THEN LeavesTry(req, HTTPException(400, "not configured"))
                 ELSE LeavesTry(req, HTTPException(500, "str(e)"))

(* lines 222-264: the result is formatted and saved; save_transcription    *)
(* returns an id, returns None (a local id is used) or raises              *)
transcribe_store ==
    /\ req.pc = "store"
    /\ \E outcome \in {"doc_id", "none", "raises"} :
          req' = CASE outcome = "doc_id" ->
                        LeavesTry(req, TranscriptionResponse("doc_id"))
                   [] outcome = "none" ->
                        LeavesTry(req, TranscriptionResponse("local-uuid"))
                   [] outcome = "raises" ->
                        LeavesTry(req, HTTPException(500, "str(e)"))

(* lines 270-276, the finally clause: os.remove(temp_file_path), an        *)
(* OSError swallowed; then the pending return or exception goes on         *)
transcribe_finally ==
    /\ req.pc = "finally"
    /\ \E outcome \in {"removed", "OSError"} :
          req' = [req EXCEPT !.pc = "done",
                             !.removals = @ + 1,
                             !.remove_failed = (outcome = "OSError"),
                             !.temp_file = IF outcome = "removed" THEN "removed" ELSE @,
                             !.response = req.pending]

InitReq ==
    /\ StoreIdle
    /\ clock = 0
    /\ wait = WIdle
    /\ pipe = PIdle
    /\ norm = NIdle
    /\ cost = CIdle
    /\ tasks = TIdle
    /\ reader = RIdle
    /\ req \in Requests

NextReq ==
    \/ (transcribe_validate /\ ReqRest)
    \/ (transcribe_save /\ ReqRest)
    \/ (transcribe_process /\ ReqRest)
    \/ (transcribe_store /\ ReqRest)
    \/ (transcribe_finally /\ ReqRest)

SpecReq == InitReq /\ [][NextReq]_vars

----------------------------------------------------------------------------
(* Properties of the job store.  In a state, last is the call that was just *)
(* made, pre the store before it, jobs the store after it.                 *)

Updated == last.op = "update_progress" /\ last.err = ""

(* C1: the progress of every stored record is within [0, 100]; an update   *)
(* with progress above 100 stores 100, one below 0 stores 0, one in range  *)
(* stores the value unchanged.                                             *)
C1_ProgressInRange ==
    /\ \A j \in DOMAIN jobs : jobs[j].progress >= 0 /\ jobs[j].progress <= 100
    /\ Updated =>
         LET p == last.args.progress
             stored == jobs[last.job_id].progress
         IN  /\ p > 100 => stored = 100
             /\ p < 0 => stored = 0
             /\ (p >= 0 /\ p <= 100) => stored = p

C1_Witness ==
    /\ Updated
    /\ last.args.progress < 0
    /\ jobs[last.job_id].progress = 0

(* C2: update_progress on a job_id that is not in the store raises         *)
(* KeyError and leaves the store as it was.                                *)
C2_UpdateUnknownRaises ==
    (last.op = "update_progress" /\ last.job_id \notin DOMAIN pre.jobs) =>
        /\ last.err = "KeyError"
        /\ jobs = pre.jobs
        /\ jobOrder = pre.jobOrder

C2_Witness ==
    /\ last.op = "update_progress"
    /\ last.err = "KeyError"
    /\ DOMAIN jobs # {}

(* C3: get_job_status of an unknown job_id returns None; delete_job of an  *)
(* unknown job_id changes nothing and raises nothing; after delete_job(j)  *)
(* j is unknown, so that a second delete_job(j) is such a no-op.           *)
C3_UnknownGetDelete ==
    /\ (last.op = "get_job_status" /\ last.job_id \notin DOMAIN jobs) =>
           last.ret = None /\ last.err = ""
    /\ last.op = "delete_job" =>
           /\ last.err = ""
           /\ last.job_id \notin DOMAIN jobs
           /\ last.job_id \notin DOMAIN pre.jobs =>
                  jobs = pre.jobs /\ jobOrder = pre.jobOrder

C3_Witness ==
    /\ last.op = "delete_job"
    /\ last.job_id \in Range(returned)
    /\ last.job_id \notin DOMAIN pre.jobs

(* C4: the job_ids returned by create_job are pairwise distinct, those of  *)
(* deleted jobs included.                                                  *)
C4_IdsNeverReused ==
    \A i, k \in DOMAIN returned : i # k => returned[i] # returned[k]

C4_Witness ==
    /\ last.op = "create_job"
    /\ Len(returned) = 2
    /\ returned[1] \notin DOMAIN jobs

(* C5: an update_progress without duration leaves the stored duration as   *)
(* it was; one with a duration stores that duration.                       *)
C5_DurationSticky ==
    Updated =>
        LET j == last.job_id
        IN  IF last.args.duration = None
            THEN jobs[j].duration = pre.jobs[j].duration
            ELSE jobs[j].duration = last.args.duration

C5_Witness ==
    /\ Updated
    /\ last.args.duration = None
    /\ jobs[last.job_id].duration # None

(* C6: right after create_job the record of the returned id has the given  *)
(* user_id, filename and provider, status CREATED, progress 0,             *)
(* current_step 'Job created', cost_estimate = initial_cost_estimate,      *)
(* duration = the given duration, and updated_at = created_at.             *)
C6_CreateStoresInitialState ==
    last.op = "create_job" =>
        /\ JobsGet(last.ret) # None
        /\ LET r == JobsGet(last.ret)[1]
               a == last.args
           IN  /\ r.user_id = a.user_id
               /\ r.filename = a.filename
               /\ r.provider = a.provider
               /\ r.status = CREATED
               /\ r.progress = 0
               /\ r.current_step = "Job created"
               /\ r.cost_estimate = a.initial_cost_estimate
               /\ r.duration = a.duration
               /\ r.updated_at = r.created_at

C6_Witness ==
    /\ last.op = "create_job"
    /\ last.args.initial_cost_estimate # 0
    /\ last.args.duration # None
    /\ last.ret \in DOMAIN jobs

(* C7: a successful update_progress of job j stores the supplied status,   *)
(* current_step and cost_estimate and the clamped progress, leaves j's     *)
(* job_id, user_id, filename, provider and created_at as they were, and    *)
(* leaves every other record and the set of stored jobs unchanged.         *)
C7_UpdateFrame ==
    Updated =>
        LET j == last.job_id
            a == last.args
        IN  /\ jobs[j].status = a.status
            /\ jobs[j].current_step = a.current_step
            /\ jobs[j].cost_estimate = a.cost_estimate
            /\ jobs[j].progress = Max(0, Min(100, a.progress))
            /\ jobs[j].job_id = pre.jobs[j].job_id
            /\ jobs[j].user_id = pre.jobs[j].user_id
            /\ jobs[j].filename = pre.jobs[j].filename
            /\ jobs[j].provider = pre.jobs[j].provider
            /\ jobs[j].created_at = pre.jobs[j].created_at
            /\ DOMAIN jobs = DOMAIN pre.jobs
            /\ jobOrder = pre.jobOrder
            /\ \A k \in DOMAIN jobs \ {j} : jobs[k] = pre.jobs[k]

C7_Witness ==
    /\ Updated
    /\ Cardinality(DOMAIN jobs) = 2
    /\ jobs[last.job_id].updated_at > jobs[last.job_id].created_at

(* C8: get_user_jobs(u) returns the records of exactly the stored jobs     *)
(* whose user_id is u, each once.                                          *)
C8_UserJobsExact ==
    last.op = "get_user_jobs" =>
        LET u == last.args.user_id
            live == { j \in DOMAIN jobs : jobs[j].user_id = u }
            ret == last.ret
        IN  /\ Len(ret) = Cardinality(live)
            /\ \A i \in 1..Len(ret) : ret[i].job_id \in live /\ ret[i].user_id = u
            /\ \A j \in live :
                   Cardinality({ i \in 1..Len(ret) : ret[i] = jobs[j] }) = 1

C8_Witness ==
    /\ last.op = "get_user_jobs"
    /\ Len(last.ret) = 1
    /\ \E j \in DOMAIN jobs : jobs[j].user_id # last.args.user_id

(* C9: delete_job of a stored job removes that job and no other: its id    *)
(* is then unknown to get_job_status and to update_progress, and every     *)
(* other record is unchanged.                                              *)
C9_DeleteRemovesExactlyOne ==
    (last.op = "delete_job" /\ last.job_id \in DOMAIN pre.jobs) =>
        /\ JobsGet(last.job_id) = None
        /\ JobNotFound(last.job_id)
        /\ DOMAIN jobs = DOMAIN pre.jobs \ {last.job_id}
        /\ \A k \in DOMAIN jobs : jobs[k] = pre.jobs[k]

C9_Witness ==
    /\ last.op = "delete_job"
    /\ last.job_id \in DOMAIN pre.jobs
    /\ DOMAIN jobs # {}

(* C10: updated_at >= created_at in every stored record, and a successful  *)
(* update_progress stores an updated_at strictly greater than the one it   *)
(* replaces.                                                               *)
C10_UpdatedAtStrictlyIncreases ==
    /\ \A j \in DOMAIN jobs : jobs[j].updated_at >= jobs[j].created_at
    /\ Updated => jobs[last.job_id].updated_at > pre.jobs[last.job_id].updated_at

(* C11: every stored record has exactly the eleven fields of the record    *)
(* create_job builds, and its job_id field is the key it is stored under.  *)
JobFields ==
    {"job_id", "user_id", "filename", "provider", "status", "progress",
     "current_step", "cost_estimate", "created_at", "updated_at", "duration"}

C11_RecordShape ==
    \A j \in DOMAIN jobs : DOMAIN jobs[j] = JobFields /\ jobs[j].job_id = j

C11_Witness ==
    /\ Updated
    /\ last.args.duration # None
    /\ pre.jobs[last.job_id].duration = None
    /\ DOMAIN jobs[last.job_id] = JobFields

(* C18: the statuses written to one record follow CREATED, UPLOADING,      *)
(* QUEUED, PROCESSING, DOWNLOADING, COMPLETED one step at a time, FAILED    *)
(* being the only other status that may be written, and nothing is written *)
(* once the record is COMPLETED or FAILED.                                 *)
StatusOrder == <<CREATED, UPLOADING, QUEUED, PROCESSING, DOWNLOADING, COMPLETED>>

StatusSuccessor(old, new) ==
    \E i \in 1..(Len(StatusOrder) - 1) : StatusOrder[i] = old /\ StatusOrder[i + 1] = new

C18_StatusesSequential ==
    Updated =>
        LET old == pre.jobs[last.job_id].status
            new == jobs[last.job_id].status
        IN  /\ old \notin {COMPLETED, FAILED}
            /\ new = FAILED \/ StatusSuccessor(old, new)

----------------------------------------------------------------------------
(* Properties of wait_for_job_completion.  wait.lastPoll is the outcome of *)
(* the last call of get_transcription_job, wait.slept the number of sleeps *)
(* since then.                                                             *)

WaitActive == wait.pc # "idle"

WaitDone == wait.pc \in {"returned", "raised"}

LastStatus ==
    IF WaitActive /\ wait.lastPoll.kind = "response"
    THEN StatusOf(wait.lastPoll.response)
    ELSE NoValue

Elapsed == clock - wait.start_time

(* C14: the call returns the job record of the first poll that reports     *)
(* COMPLETED, whatever IN_PROGRESS/QUEUED results and ClientErrors came    *)
(* before; it does not sleep or poll after it and raises nothing.          *)
C14_ReturnsAtFirstCompleted ==
    /\ LastStatus = "COMPLETED" =>
           /\ wait.pc = "returned"
           /\ wait.ret = Some(wait.lastPoll.response.TranscriptionJob)
           /\ wait.err = ""
           /\ wait.slept = 0
    /\ (WaitActive /\ wait.pc = "returned") => LastStatus = "COMPLETED"

C14_Witness ==
    /\ WaitActive
    /\ wait.pc = "returned"
    /\ wait.sawRunning
    /\ wait.sawError

C16_LoopTerminates ==
    /\ <>WaitDone
    /\ [](( /\ WaitActive
            /\ wait.pc = "raised"
            /\ LastStatus # "FAILED"
            /\ wait.lastPoll.kind # "OtherError" ) =>
              (wait.err = TimedOutMessage /\ Elapsed >= wait.timeout))

C16_Witness ==
    /\ WaitActive
    /\ wait.pc = "raised"
    /\ wait.err = TimedOutMessage
    /\ wait.sawRunning
    /\ wait.sawError

----------------------------------------------------------------------------
(* Properties of process_transcription_data.  In a state with norm.pc =    *)
(* "done", norm.out is what the call did with norm.transcription_data.     *)

NormDone == norm.pc = "done"

HasKey(data, k) == data.t = "dict" /\ k \in DOMAIN data.d

IsShapeA(data) == HasKey(data, "results") /\ data.d["results"].t = "dict"

IsShapeB(data) == HasKey(data, "displayText")

IsShapeC(data) == HasKey(data, "results") /\ data.d["results"].t = "list"

Unrecognized(data) == ~IsShapeA(data) /\ ~IsShapeB(data) /\ ~IsShapeC(data)

(* C19 as stated: for None, for the empty payload and for every payload of *)
(* none of the three shapes the call raises nothing and returns the zeroed *)
(* result: transcript '', speakers [], duration 0.0.                       *)
C19_UnrecognizedYieldsZeroed ==
    (NormDone /\ Unrecognized(norm.transcription_data)) =>
        norm.out = Returns(ZeroedResult)

(* C20: for a payload with displayText the transcript is that field as it  *)
(* is, speakers is empty, and the duration is the payload's duration       *)
(* divided by 10,000,000 (0.0 without one); 'hi there' with 20000000 gives *)
(* 'hi there' and 2.0.                                                     *)
C20_DisplayTextAndTicks ==
    (NormDone /\ IsShapeB(norm.transcription_data)) =>
        LET data == norm.transcription_data.d
            out == norm.out
        IN  /\ out.kind = "return"
            /\ out.result.transcript = data["displayText"]
            /\ out.result.speakers = <<>>
            /\ "duration" \in DOMAIN data =>
                   out.result.duration = Rat(data["duration"].n, 10000000)
            /\ "duration" \notin DOMAIN data => out.result.duration = Rat(0, 1)
            /\ (data["displayText"] = JStr("hi there") /\ "duration" \in DOMAIN data
                  /\ data["duration"] = JNum(20000000)) =>
                   (out.result.duration.num = 2 /\ out.result.duration.den = 1)

C20_Witness ==
    /\ NormDone
    /\ norm.enable_diarization
    /\ norm.transcription_data =
           JDict([displayText |-> JStr("hi there"), duration |-> JNum(20000000)])
    /\ norm.out.kind = "return"
    /\ norm.out.result.transcript = JStr("hi there")
    /\ norm.out.result.duration.num = 2
    /\ norm.out.result.duration.den = 1

----------------------------------------------------------------------------
(* Properties of the provider pipelines *)

PipeActive == pipe.pc # "idle"

PipeDone == pipe.pc \in {"returned", "raised"}

(* C12 as stated: when the upload has succeeded, the delete of the         *)
(* uploaded object has been invoked by the time the pipeline is left,      *)
(* whether it returns or raises.                                           *)
C12_CleanupOnEveryExit ==
    (PipeDone /\ pipe.uploaded) => pipe.deletes >= 1

(* C13: when the delete raises or returns False, the pipeline returns the  *)
(* normalized result all the same and raises nothing.                      *)
C13_CleanupFailureSwallowed ==
    (PipeActive /\ pipe.cleanup \in {"raise", "False"}) =>
        /\ pipe.pc = "returned"
        /\ pipe.result # None
        /\ pipe.ret = pipe.result
        /\ pipe.err = ""

C13_Witness ==
    /\ pipe.pc = "returned"
    /\ pipe.provider = "aws"
    /\ pipe.cleanup = "raise"
    /\ pipe.remote
    /\ pipe.ret # None

----------------------------------------------------------------------------
(* Properties of the transcript, the duration and the speakers of          *)
(* process_transcription_data                                              *)

NormData == norm.transcription_data

NormResults == norm.transcription_data.d["results"]

(* an entry of a Shape C list: a dict with a non-empty list of             *)
(* alternatives, the first of them with a transcript                       *)
IsShapeCEntry(res) ==
    /\ HasKey(res, "alternatives")
    /\ res.d["alternatives"].t = "list"
    /\ res.d["alternatives"].l # <<>>
    /\ HasKey(res.d["alternatives"].l[1], "transcript")
    /\ res.d["alternatives"].l[1].d["transcript"].t = "str"

FirstAlternatives(entries) ==
    [i \in DOMAIN entries |-> entries[i].d["alternatives"].l[1].d["transcript"]]

(* C21 as stated: for a payload whose results is a list of entries with    *)
(* alternatives, the transcript is the first alternative's transcript of   *)
(* every entry, in order, joined by single spaces.                         *)
C21_ShapeCJoinsFirstAlternatives ==
    ( /\ NormDone
      /\ IsShapeC(NormData)
      /\ \A i \in DOMAIN NormResults.l : IsShapeCEntry(NormResults.l[i]) ) =>
        /\ norm.out.kind = "return"
        /\ norm.out.result.transcript =
               JStr(JoinStrings(FirstAlternatives(NormResults.l)))

IsPronunciation(item) == Get(item, "type", JNull) = JStr("pronunciation")

ContentOf(item) == item.d["alternatives"].l[1].d["content"]

ContentsOf(items) == [i \in DOMAIN items |-> ContentOf(items[i])]

ItemsOf(results) ==
    IF "items" \in DOMAIN results.d THEN results.d["items"].l ELSE <<>>

HasTranscripts(results) ==
    "transcripts" \in DOMAIN results.d /\ results.d["transcripts"].l # <<>>

(* C22 as stated: for a Shape A payload the transcript is the first of the *)
(* transcripts when that list is there and not empty; otherwise it is the  *)
(* contents of the pronunciation items, and of no other item, in input     *)
(* order with single spaces between them.                                  *)
C22_TranscriptFirstOrPronunciations ==
    (NormDone /\ IsShapeA(NormData) /\ norm.out.kind = "return") =>
        norm.out.result.transcript =
            IF HasTranscripts(NormResults)
            THEN NormResults.d["transcripts"].l[1].d["transcript"]
            ELSE JStr(JoinStrings(ContentsOf(
                     SelectSeq(ItemsOf(NormResults), IsPronunciation))))

IsTimed(item) == HasKey(item, "end_time")

(* C23 as stated: for a Shape A payload the duration is the end_time of    *)
(* the last item that has one, whatever items without timing follow it,    *)
(* and 0.0 when no item has timing.                                        *)
C23_DurationOfLastTimedItem ==
    (NormDone /\ IsShapeA(NormData) /\ norm.out.kind = "return") =>
        LET timed == SelectSeq(ItemsOf(NormResults), IsTimed)
        IN  norm.out.result.duration =
                IF timed = <<>> THEN Rat(0, 1)
                ELSE Float(timed[Len(timed)].d["end_time"])

(* the call reconstructs the speakers (line 654) and the helper of line    *)
(* 662 returns                                                             *)
Reconstructs ==
    /\ NormDone
    /\ IsShapeA(NormData)
    /\ norm.enable_diarization
    /\ norm.helper = "returns"
    /\ HasKey(NormResults, "speaker_labels")
    /\ HasKey(NormResults.d["speaker_labels"], "segments")

ProviderSegments == NormResults.d["speaker_labels"].d["segments"].l

(* a pronunciation item with its timing and a string for its content *)
IsWord(item) ==
    /\ IsPronunciation(item)
    /\ HasKey(item, "start_time")
    /\ HasKey(item, "end_time")
    /\ ContentOf(item).t = "str"

(* [start_time, end_time] of the item lies in [start_time, end_time] of    *)
(* the segment, bounds included                                            *)
Contained(item, segment) ==
    /\ RatLe(Float(segment.d["start_time"]), Float(item.d["start_time"]))
    /\ RatLe(Float(item.d["end_time"]), Float(segment.d["end_time"]))

ContainedWords(items, segment) ==
    SelectSeq(items, LAMBDA item : Contained(item, segment))

TextsOf(speakers) == [i \in DOMAIN speakers |-> speakers[i].text]

(* C24: when the items are words, the text of a segment is made of the     *)
(* words whose interval lies within the segment's interval, bounds         *)
(* included, and of no other word; a word that begins in one segment and   *)
(* ends in the next is in the text of neither.                             *)
C24_OnlyContainedWords ==
    ( /\ Reconstructs
      /\ \A i \in DOMAIN ItemsOf(NormResults) : IsWord(ItemsOf(NormResults)[i]) ) =>
        /\ norm.out.kind = "return"
        /\ TextsOf(norm.out.result.speakers) =
               SelectSeq([i \in DOMAIN ProviderSegments |->
                             JoinStrings(ContentsOf(ContainedWords(
                                 ItemsOf(NormResults), ProviderSegments[i])))],
                         LAMBDA text : text # "")

C24_Witness ==
    /\ Reconstructs
    /\ ItemsOf(NormResults) = <<Word("hello", "0.0", "0.5"), Word("uh", "1.9", "2.1")>>
    /\ ProviderSegments = <<Segment("spk_0", "0.0", "2.0"), Segment("spk_1", "2.0", "3.0")>>
    /\ norm.out.kind = "return"
    /\ TextsOf(norm.out.result.speakers) = <<"hello">>

IsPunctuation(item) == Get(item, "type", JNull) = JStr("punctuation")

(* the content of the word at position i, with the content of the item at  *)
(* position i + 1 appended when that item is a punctuation item            *)
MergedToken(items, i) ==
    IF i < Len(items) /\ IsPunctuation(items[i + 1])
    THEN JStr(ContentOf(items[i]).s \o ContentOf(items[i + 1]).s)
    ELSE ContentOf(items[i])

(* the positions of the words that lie within the segment, in order *)
WordPositions(items, segment) ==
    SelectSeq([i \in DOMAIN items |-> i],
              LAMBDA i : IsWord(items[i]) /\ Contained(items[i], segment))

MergedText(items, segment) ==
    LET positions == WordPositions(items, segment)
    IN  JoinStrings([k \in DOMAIN positions |-> MergedToken(items, positions[k])])

(* C25 as stated: the text of a segment is made of its words, each with    *)
(* the punctuation item at the next position of the item list appended     *)
(* without a space; a punctuation item is never a token of its own, and    *)
(* the next position is that of the word itself, also when an equal item   *)
(* stands earlier in the list.  hello [0.0,0.5], ',' [0.5,0.5], world      *)
(* [0.6,1.0] in the segment [0.0,2.0] give 'hello, world'.                 *)
C25_PunctuationMergedByPosition ==
    ( /\ Reconstructs
      /\ \A i \in DOMAIN ItemsOf(NormResults) :
            IsWord(ItemsOf(NormResults)[i]) \/ IsPunctuation(ItemsOf(NormResults)[i]) ) =>
        /\ norm.out.kind = "return"
        /\ TextsOf(norm.out.result.speakers) =
               SelectSeq([i \in DOMAIN ProviderSegments |->
                             MergedText(ItemsOf(NormResults), ProviderSegments[i])],
                         LAMBDA text : text # "")

(* the try block of lines 660-708 is left without an exception *)
NormalPath == Reconstructs /\ ~TryBlock(NormResults, norm.helper).raised

(* the speaker segment has the label and the timing of the provider segment *)
Carries(speaker_data, segment) ==
    /\ speaker_data.speaker = "Speaker " \o segment.d["speaker_label"].s
    /\ speaker_data.start_time = Float(segment.d["start_time"])
    /\ speaker_data.end_time = Float(segment.d["end_time"])

(* no item with timing and alternatives lies within the segment *)
CollectsNoWord(items, segment) ==
    \A i \in DOMAIN items :
        ~( /\ HasKey(items[i], "start_time")
           /\ HasKey(items[i], "end_time")
           /\ HasKey(items[i], "alternatives")
           /\ Contained(items[i], segment) )

(* C26: when the reconstruction raises nothing, every emitted segment has  *)
(* a non-empty text, and the emitted segments are provider segments in     *)
(* input order, each with its label and timing; a provider segment that    *)
(* collects no word is not among them.                                     *)
C26_NoEmptySegmentOnNormalPath ==
    (NormalPath /\ norm.out.kind = "return") =>
        LET speakers == norm.out.result.speakers
        IN  /\ \A i \in DOMAIN speakers : speakers[i].text # ""
            /\ \E f \in [DOMAIN speakers -> DOMAIN ProviderSegments] :
                  /\ \A i, j \in DOMAIN speakers : i < j => f[i] < f[j]
                  /\ \A i \in DOMAIN speakers :
                        /\ Carries(speakers[i], ProviderSegments[f[i]])
                        /\ ~CollectsNoWord(ItemsOf(NormResults), ProviderSegments[f[i]])

C26_Witness ==
    /\ NormalPath
    /\ ItemsOf(NormResults) =
           <<Word("hello", "0.0", "0.5"), Punctuation(","), Word("world", "0.6", "1.0")>>
    /\ ProviderSegments = <<Segment("spk_0", "0.0", "1.0"), Segment("spk_1", "1.0", "3.0")>>
    /\ norm.out.kind = "return"
    /\ TextsOf(norm.out.result.speakers) = <<"hello, world">>

(* the diarization block is entered by a call that fails nowhere else, and *)
(* its try block (lines 660-708) raises                                    *)
ReconstructionRaised ==
    /\ NormDone
    /\ IsShapeA(NormData)
    /\ norm.enable_diarization
    /\ HasKey(NormResults, "speaker_labels")
    /\ Transcript(NormResults) # Raised
    /\ Duration(NormResults) # Raised
    /\ TryBlock(NormResults, norm.helper).raised

(* one segment without text for every provider segment, in input order *)
TextlessSegments(segments) ==
    [i \in DOMAIN segments |->
        SpeakerData(segments[i].d["speaker_label"], "",
                    Float(segments[i].d["start_time"]),
                    Float(segments[i].d["end_time"]))]

(* C27: when the reconstruction raises, the call returns and the speakers  *)
(* of its result are exactly one segment per provider segment, in input    *)
(* order, each with empty text and the segment's start_time and end_time.  *)
C27_FallbackOneEmptySegmentEach ==
    ReconstructionRaised =>
        /\ norm.out.kind = "return"
        /\ norm.out.result.speakers = TextlessSegments(ProviderSegments)

----------------------------------------------------------------------------
(* Properties of calculate_cost *)

CostDone == cost.pc = "done"

(* the rate of the claim for the provider, in thousandths of a USD per     *)
(* minute                                                                  *)
RateMillis(provider) ==
    CASE provider = "aws"   -> 24
      [] provider = "azure" -> 16
      [] provider = "gcp"   -> 18
      [] OTHER              -> 20

(* the call made with provider and with seconds as its duration *)
CostCallOf(provider, seconds) ==
    /\ cost.provider = provider
    /\ cost.duration_seconds = Rat(seconds, 1)

(* C28: calculate_cost(provider, d) returns rate[provider] * d / 60 with   *)
(* the rates 0.024 (aws), 0.016 (azure), 0.018 (gcp) and 0.02 for every    *)
(* other provider; cost(aws, 300) = 0.12, cost(azure, 300) = 0.08,         *)
(* cost(gcp, 300) = 0.09, cost(aws, 60) = 0.024; the call never raises and *)
(* changes nothing else.                                                   *)
C28_CostIsRateTimesMinutes ==
    CostDone =>
        LET d == AsFloat(cost.duration_seconds)
        IN  /\ cost.out.kind = "return"
            /\ cost.out.result =
                   Rat(RateMillis(cost.provider) * d.num, 1000 * 60 * d.den)
            /\ CostCallOf("aws", 300) => cost.out.result = Rat(12, 100)
            /\ CostCallOf("azure", 300) => cost.out.result = Rat(8, 100)
            /\ CostCallOf("gcp", 300) => cost.out.result = Rat(9, 100)
            /\ CostCallOf("aws", 60) => cost.out.result = Rat(24, 1000)
            /\ StoreIdle
            /\ clock = 0

C28_Witness ==
    /\ CostDone
    /\ CostCallOf("aws", 300)
    /\ cost.out = Returns(Rat(12, 100))

----------------------------------------------------------------------------
(* Properties of two tasks on one job *)

TasksReturned ==
    /\ tasks.pc = "run"
    /\ \A i \in TaskIds : tasks.t[i].pc \in {"done", "raised"}

(* both tasks call update_progress; task i calls it and task k delete_job *)
BothUpdate == \A i \in TaskIds : tasks.t[i].op = "update_progress"

UpdateAndDelete(i, k) ==
    /\ tasks.t[i].op = "update_progress"
    /\ tasks.t[k].op = "delete_job"

(* the record after the whole call of task i, then the whole call of task  *)
(* k, on the record the tasks found                                        *)
Sequential(i, k) ==
    DictUpdate(DictUpdate(tasks.start, tasks.t[i].update_data),
               tasks.t[k].update_data)

----------------------------------------------------------------------------
(* Properties of returned records *)

ReaderHolds == reader.pc = "run" /\ reader.refs # <<>>

(* C30: a record returned by get_job_status or get_user_jobs is a          *)
(* snapshot.  What the reader holds stays what was returned whatever       *)
(* update_progress or delete_job does afterwards, and a stored record      *)
(* changes in an update_progress call only, never by the reader's change   *)
(* of the value it holds.                                                  *)
C30_ReturnedRecordIsSnapshot ==
    /\ (ReaderHolds /\ ~reader.wrote) => reader.held = reader.seen
    /\ reader.pc = "run" =>
           \A job_id \in DOMAIN jobs \cap DOMAIN pre.jobs :
               jobs[job_id] # pre.jobs[job_id] => last.op = "update_progress"

----------------------------------------------------------------------------
(* Further properties of the job store *)

(* C31: a duration that is set never decreases.  After every successful    *)
(* update_progress on a record whose duration was not None, the stored     *)
(* duration is not None and not smaller than it was before the call.       *)
C31_DurationNeverDecreases ==
    (Updated /\ pre.jobs[last.job_id].duration # None) =>
        /\ jobs[last.job_id].duration # None
        /\ jobs[last.job_id].duration[1] >= pre.jobs[last.job_id].duration[1]

----------------------------------------------------------------------------
(* Further properties of the provider pipelines *)

(* the pipeline was left by an exception of its call step *)
FailedAt(step) ==
    /\ pipe.pc = "raised"
    /\ pipe.done # <<>>
    /\ pipe.done[Len(pipe.done)] = step

(* upload failure, start rejection, poll timeout, failure reported by the  *)
(* provider                                                                *)
FatalCondition ==
    \/ FailedAt("upload")
    \/ FailedAt("start")
    \/ /\ FailedAt("wait")
       /\ pipe.err \in {TimedOutMessage} \cup { FailedMessage(r) : r \in Responses }

(* C32: a fatal condition ends the job with a Job Record of status FAILED  *)
(* and a non-empty current_step, and without a transcription result;       *)
(* a problem of the normalization never ends the pipeline by an exception. *)
C32_FatalConditionsFailTheJob ==
    /\ FatalCondition =>
           /\ pipe.result = None
           /\ pipe.ret = None
           /\ \E j \in DOMAIN jobs :
                  jobs[j].status = FAILED /\ jobs[j].current_step # ""
    /\ ~FailedAt("normalize")

----------------------------------------------------------------------------
(* Cancellation of a job that is being polled *)

(* C33: after a cancellation request the loop stops no later than the next *)
(* poll boundary (at most one more poll is made), it is left by an error   *)
(* that is neither the provider's failure message nor a result, and the    *)
(* Job Record is FAILED with a current_step that names the cancellation.   *)
C33_CancellationStopsPolling ==
    (WaitActive /\ wait.cancelled) =>
        /\ wait.afterCancel <= 1
        /\ wait.pc # "returned"
        /\ wait.pc = "raised" =>
               /\ wait.err \notin { FailedMessage(r) : r \in Responses }
               /\ \E j \in DOMAIN jobs :
                      /\ jobs[j].status = FAILED
                      /\ jobs[j].current_step
                             \notin { FailedMessage(r) : r \in Responses }

----------------------------------------------------------------------------
(* Status and cost_estimate writes of the job store *)

(* C34: the store checks no transition.  update_progress on a stored job   *)
(* succeeds whatever the stored status and the new status are, and the     *)
(* stored status is then the new one.                                      *)
C34_AnyStatusOverwrites ==
    (last.op = "update_progress" /\ last.job_id \in DOMAIN pre.jobs) =>
        /\ last.err = ""
        /\ jobs[last.job_id].status = last.args.status

C34_Witness ==
    /\ Updated
    /\ pre.jobs[last.job_id].status \in {COMPLETED, FAILED}
    /\ last.args.status \in {UPLOADING, QUEUED}
    /\ jobs[last.job_id].status = last.args.status

----------------------------------------------------------------------------
(* Order of the calls of one pipeline *)

(* the calls of a request of the provider, in the order of the code *)
CallOrder(provider) ==
    IF provider = "aws"
    THEN <<"upload", "start", "wait", "download", "normalize", "delete">>
    ELSE <<"upload", "transcribe", "normalize", "delete">>

IsPrefix(s, t) == Len(s) <= Len(t) /\ \A i \in DOMAIN s : s[i] = t[i]

Called(step) == \E i \in DOMAIN pipe.done : pipe.done[i] = step

(* a call other than the first one was made *)
CalledAfterUpload == Len(pipe.done) >= 2

(* C35: the calls of one request are made in the order upload, start,      *)
(* poll, fetch, normalize, cleanup, each at most once.  The job is started *)
(* only after the upload succeeded, the result is fetched only after a     *)
(* poll returned a COMPLETED job with a transcript location, and a call    *)
(* that failed is the last call of the request.                            *)
C35_StepsInOrder ==
    PipeActive =>
        /\ IsPrefix(pipe.done, CallOrder(pipe.provider))
        /\ CalledAfterUpload => pipe.uploaded
        /\ Called("download") =>
               /\ pipe.job_info # None
               /\ DictGet(pipe.job_info[1], "TranscriptionJobStatus", NoValue) = "COMPLETED"
               /\ "Transcript" \in DOMAIN pipe.job_info[1]
               /\ "TranscriptFileUri" \in DOMAIN pipe.job_info[1]["Transcript"]
        /\ Called("normalize") => pipe.data # JNull
        /\ Called("delete") => pipe.result # None
        /\ WaitActive => (pipe.pc = "wait" /\ Called("wait"))

C35_Witness ==
    /\ pipe.pc = "returned"
    /\ pipe.provider = "aws"
    /\ pipe.done = CallOrder("aws")
    /\ pipe.job_info # None

----------------------------------------------------------------------------
(* Polls and the deadline of wait_for_job_completion *)

(* C36: a poll is issued only at an elapsed time strictly below timeout,   *)
(* two consecutive polls have exactly one sleep between them, and with     *)
(* timeout <= 0 the call raises the timeout error without a poll; the call *)
(* returns only what a poll issued before the deadline reported.           *)
C36_NoPollAtOrAfterDeadline ==
    WaitActive =>
        /\ wait.pc = "poll" => Elapsed < wait.timeout
        /\ (wait.pc = "poll" /\ wait.lastPoll # NoPoll) => wait.slept = 1
        /\ (wait.lastPoll # NoPoll /\ wait.slept = 0) =>
               Elapsed - MaxLatency < wait.timeout
        /\ wait.timeout <= 0 =>
               /\ wait.lastPoll = NoPoll
               /\ wait.pc \in {"check", "raised"}
               /\ wait.pc = "raised" => wait.err = TimedOutMessage
        /\ (wait.pc = "check" /\ Elapsed >= wait.timeout) => ~LoopCond

C36_Witness ==
    /\ WaitActive
    /\ wait.pc = "raised"
    /\ wait.err = TimedOutMessage
    /\ wait.timeout > 0
    /\ LastStatus = "IN_PROGRESS"
    /\ wait.slept = 1
    /\ wait.errs = 0

----------------------------------------------------------------------------
(* Speakers and the diarization flag *)

(* the payload carries speaker labels: its "results" is a dict with the    *)
(* key "speaker_labels"                                                    *)
CarriesSpeakerLabels(data) ==
    IsShapeA(data) /\ HasKey(data.d["results"], "speaker_labels")

(* C37: the speakers of a returned result are empty when diarization is    *)
(* disabled or the payload carries no speaker labels, whatever its items;  *)
(* a result has speaker segments only when diarization is enabled and the  *)
(* payload carries speaker labels.                                         *)
C37_SpeakersOnlyWhenDiarizing ==
    (NormDone /\ norm.out.kind = "return") =>
        /\ (~norm.enable_diarization \/ ~CarriesSpeakerLabels(NormData)) =>
               norm.out.result.speakers = <<>>
        /\ norm.out.result.speakers # <<>> =>
               (norm.enable_diarization /\ CarriesSpeakerLabels(NormData))

C37_Witness ==
    /\ NormDone
    /\ ~norm.enable_diarization
    /\ CarriesSpeakerLabels(NormData)
    /\ HasKey(NormResults.d["speaker_labels"], "segments")
    /\ ProviderSegments = <<Segment("spk_0", "0.0", "1.0"), Segment("spk_1", "1.0", "3.0")>>
    /\ ItemsOf(NormResults) =
           <<Word("hello", "0.0", "0.5"), Word("world", "0.6", "1.0")>>
    /\ norm.out.kind = "return"
    /\ norm.out.result.transcript # JStr("")
    /\ norm.out.result.speakers = <<>>

----------------------------------------------------------------------------
(* Timing of the speaker segments *)

(* C38 as stated: every segment of a returned result has end_time >=       *)
(* start_time, whether the reconstruction or the fallback produced it.     *)
C38_SegmentsEndAfterStart ==
    (NormDone /\ norm.out.kind = "return") =>
        \A i \in DOMAIN norm.out.result.speakers :
            RatLe(norm.out.result.speakers[i].start_time,
                  norm.out.result.speakers[i].end_time)

----------------------------------------------------------------------------
(* cost_estimate of a Job Record *)

(* C39: the stored cost_estimate is the value passed to the latest         *)
(* successful update_progress of the job, or the initial estimate of       *)
(* create_job when there was none: a successful update stores its          *)
(* cost_estimate argument (0 when omitted) whatever was stored, a          *)
(* create_job stores its initial estimate, and no other call changes the   *)
(* cost_estimate of a record.                                              *)
C39_CostEstimateNotSticky ==
    /\ Updated => jobs[last.job_id].cost_estimate = last.args.cost_estimate
    /\ last.op = "create_job" =>
           jobs[last.job_id].cost_estimate = last.args.initial_cost_estimate
    /\ \A j \in DOMAIN jobs \cap DOMAIN pre.jobs :
           (Updated /\ j = last.job_id)
               \/ jobs[j].cost_estimate = pre.jobs[j].cost_estimate

C39_Witness ==
    /\ Updated
    /\ pre.jobs[last.job_id].cost_estimate = 48
    /\ last.args.cost_estimate = 0
    /\ jobs[last.job_id].cost_estimate = 0

----------------------------------------------------------------------------
(* Properties of the temporary file of transcribe *)

ReqDone == req.pc = "done"

Created == req.temp_file # "none"

(* C40 as stated: once the temporary file exists, every way out of the     *)
(* handler has called os.remove on it exactly once, the file is gone       *)
(* unless that call failed, and the caller gets what the handler had       *)
(* decided before the removal, whether or not the removal failed.          *)
C40_TempFileRemovedOnEveryExit ==
    /\ (ReqDone /\ Created) =>
           /\ req.removals = 1
           /\ ~req.remove_failed => req.temp_file = "removed"
           /\ req.response = req.pending
    /\ req.removals <= 1

====
